---- MODULE Spec2Model ----
(***************************************************************************)
(* StoneNet: the SSTP server (session table, handshake, session cleaner)   *)
(* and the Kademlia-style node (FIND_NODE, FIND_VALUE, buckets).           *)
(***************************************************************************)
EXTENDS Integers, Sequences, FiniteSets, TLC

\* The absent value of an Option: of a session id, a node id and an address.
NoId == 0 - 1
NoNode == <<"id", "nobody">>
NoAddr == "nowhere"

(***************************************************************************)
(* Bounds of the model.                                                    *)
(***************************************************************************)
MaxAllocs == 2
MaxKeys == 3
MaxHandlers == 1
MaxTime == 1
IdBits == 4
PoolSize == 4
MaxFingers == 2
MaxVisit == 2
ScenarioResultLimit == 3
ScenarioVisitLimit == 10
MaxDatagrams == 2
MaxTasks == 2

(***************************************************************************)
(* Program constants.                                                      *)
(***************************************************************************)
U16 == 65536
NEXT_ID_GIVE_UP == 65535

Hosts == {"A", "B"}
Initiators == {"A"}
Addrs == Hosts \cup {"C"}
\* An address no server of the model listens on
Strangers == {"D"}
SeedIds == {U16 - 1}
\* Durations, in ticks of the model's clock: the server's default_timeout and the
\* crate's DEFAULT_TIMEOUT, which connect and relay pass on as their timeout.
default_timeout == MaxTime
DEFAULT_TIMEOUT == MaxTime

(***************************************************************************)
(* Identity: Ed25519 keys, addresses and signatures (identity.rs).         *)
(***************************************************************************)
private_key(h) == <<"sk", h>>
public(sk) == <<"pk", sk[2]>>
generate_address(pk) == <<"id", pk[2]>>
sign(sk, message) == <<"sig", sk[2], message>>
verify(pk, message, signature) == signature = <<"sig", pk[2], message>>
server_node_id(h) == generate_address(public(private_key(h)))

\* x25519::PublicKey::from(&StaticSecret)
x25519_public(dh_private_key) == <<"dh", dh_private_key>>

(***************************************************************************)
(* State of the SSTP servers.                                              *)
(***************************************************************************)
VARIABLES
    sessions,     \* sessions[h]: Sessions.map of host h, session id -> SessionData
    next_id,      \* next_id[h]: Sessions.next_id of host h
    allocated,    \* every SessionData object created so far, with the id it got
    cleaned,      \* the sessions clean_sessions has removed so far
    keys,         \* number of ephemeral DH keys generated so far
    net,          \* packets sent on the links, by packet type
    connects,     \* the connect_with_timeout / relay_with_timeout calls, in call order
    handlers,     \* the _process_hello_packet tasks between their two steps
    transporters, \* the transporters spawned so far
    replies       \* every HELLO_ACK sent, with the HELLO it answers and the session

sstpVars == <<sessions, next_id, allocated, cleaned, keys, net, connects,
              handlers, transporters, replies>>

(***************************************************************************)
(* State of the Kademlia node.                                             *)
(***************************************************************************)
VARIABLES
    node,         \* the Node: node_id, bucket_size, openness and buckets
    peers,        \* the other nodes of the network: the buckets of each
    lookup,       \* the find_node / find_node_from_fingers call, its locals
    search        \* the FindValueIter, its fields and the result of next

nodeVars == <<node, peers, lookup, search>>

(***************************************************************************)
(* State of the locks of one server.                                       *)
(***************************************************************************)
VARIABLES
    tasks         \* tasks[t]: the locking steps of the handler task t runs, and how
                  \* many of them it has done

lockVars == <<tasks>>

(***************************************************************************)
(* The functions of the program that keep no state: the last call made of   *)
(* one of them.                                                            *)
(***************************************************************************)
VARIABLES
    call          \* the function called, what it was given and what it gave back

callVars == <<call>>

\* No function has been called yet
NoCall == [op |-> "none"]

vars == <<sstpVars, nodeVars, lockVars, callVars>>

(***************************************************************************)
(* Sessions                                                                *)
(***************************************************************************)
\* SessionData::new with SessionTransportData::Direct
DirectSession(their_node_id, dest, encrypt, hello_channel, relay_node_id, timeout, uid) ==
    [kind |-> "Direct", their_node_id |-> their_node_id,
     dest_session_id |-> dest, encrypt_session_id |-> encrypt,
     hello_channel |-> hello_channel, relay_node_id |-> relay_node_id,
     handle |-> FALSE, packet_receiver |-> TRUE,
     source_session_id |-> NoId, source_addr |-> NoAddr,
     target_session_id |-> NoId, target_addr |-> NoAddr,
     idle |-> 0, keep_alive_timeout |-> timeout, uid |-> uid]

\* SessionData::new with SessionTransportData::Relay
RelaySession(target_node_id, source_session_id, source_addr, target_addr, timeout, uid) ==
    [kind |-> "Relay", their_node_id |-> target_node_id,
     dest_session_id |-> NoId, encrypt_session_id |-> NoId,
     hello_channel |-> FALSE, relay_node_id |-> NoNode,
     handle |-> FALSE, packet_receiver |-> FALSE,
     source_session_id |-> source_session_id, source_addr |-> source_addr,
     target_session_id |-> 0, target_addr |-> target_addr,
     idle |-> 0, keep_alive_timeout |-> timeout, uid |-> uid]

\* The loop of Sessions::next_id, entered with the counter at nid after i ids were
\* skipped: it stops at the first id from nid on that is not in the map, and gives
\* up, the counter moved on, once NEXT_ID_GIVE_UP ids have been skipped. left is
\* the number of ids it may still skip before the one it stops at.
next_id_loop(map, nid, i) ==
    LET left == NEXT_ID_GIVE_UP - 1 - i
        taken == DOMAIN map
        free(k) == (nid + k) % U16 \notin taken
    IN IF \E k \in 0..left : free(k)
       THEN LET k == CHOOSE k \in 0..left : free(k) /\ \A j \in 0..(k - 1) : ~free(j)
            IN [id |-> (nid + k) % U16, next |-> (nid + k + 1) % U16]
       ELSE [id |-> NoId, next |-> (nid + left + 1) % U16]

\* A plausible bug: the counter is handed out without looking at the map.
Sessions_next_id_unchecked(map, nid) == [id |-> nid, next |-> (nid + 1) % U16]

\* Sessions::next_id: the id returned (or NoId) and the new value of the counter.
Sessions_next_id(map, nid) == next_id_loop(map, nid, 0)

\* HashMap::insert
MapInsert(map, id, data) ==
    [k \in DOMAIN map \cup {id} |-> IF k = id THEN data ELSE map[k]]

\* HashMap::remove
MapRemove(map, ids) == [k \in DOMAIN map \ ids |-> map[k]]

\* A plausible bug: the comparison of the peer's session id is inverted.
find_their_session_inverted(map, their_node_id, their_session_id) ==
    {s \in DOMAIN map :
        /\ map[s].kind = "Direct"
        /\ map[s].their_node_id = their_node_id
        /\ map[s].dest_session_id # their_session_id}

\* Sessions::find_their_session: the local ids of the direct sessions of that peer
\* session (the code returns the first one the map iteration meets).
find_their_session(map, their_node_id, their_session_id) ==
    {s \in DOMAIN map :
        /\ map[s].kind = "Direct"
        /\ map[s].their_node_id # NoNode
        /\ map[s].their_node_id = their_node_id
        /\ map[s].dest_session_id # NoId
        /\ map[s].dest_session_id = their_session_id}

\* The session object a task holds (an Arc) is the one in the map under id.
Holds(h, id, uid) == id \in DOMAIN sessions[h] /\ sessions[h][id].uid = uid

\* A write through the Arc of session (id, uid): seen in the map only while the map
\* still holds that object.
WithSession(map, id, uid, field, value) ==
    IF id \in DOMAIN map /\ map[id].uid = uid
    THEN [map EXCEPT ![id] = [@ EXCEPT ![field] = value]]
    ELSE map

\* Number of SessionData objects host h has created; the next one gets uid NewUid(h).
Allocs(h) == Cardinality({x \in allocated : x.host = h})
NewUid(h) == Allocs(h) + 1

\* The part new_outgoing_session, new_incomming_session and new_relay_session share:
\* under the sessions lock, take an id from next_id and insert the session under it.
\* r is the result of Sessions::next_id.
InsertNewSession(h, r, data, dir) ==
    /\ next_id' = [next_id EXCEPT ![h] = r.next]
    /\ IF r.id = NoId
       THEN UNCHANGED <<sessions, allocated>>
       ELSE /\ sessions' = [sessions EXCEPT ![h] = MapInsert(@, r.id, data)]
            /\ allocated' = allocated \cup
                   {[host |-> h, id |-> r.id, uid |-> data.uid, dir |-> dir,
                     their_node_id |-> data.their_node_id,
                     dest_session_id |-> data.dest_session_id]}

(***************************************************************************)
(* Packets                                                                 *)
(***************************************************************************)
HelloBody(p) == <<p.dh_public_key, p.session_id>>
HelloAckBody(p) == <<p.dh_public_key, p.source_session_id, p.server_session_id>>

\* compose_hello_packet / new_hello_packet
new_hello_packet(h, target, dh_private_key, my_session_id) ==
    LET body == [dh_public_key |-> x25519_public(dh_private_key),
                 session_id |-> my_session_id]
    IN [src |-> h, dst |-> target,
        node_public_key |-> public(private_key(h)),
        signature |-> sign(private_key(h), HelloBody(body)),
        dh_public_key |-> body.dh_public_key,
        session_id |-> body.session_id]

\* new_relay_hello_packet
new_relay_hello_packet(h, relay, target, local_session_id, dh_public_key) ==
    LET body == [dh_public_key |-> dh_public_key, session_id |-> local_session_id]
    IN [src |-> h, dst |-> relay, target |-> target,
        node_public_key |-> public(private_key(h)),
        signature |-> sign(private_key(h), HelloBody(body)),
        dh_public_key |-> dh_public_key,
        session_id |-> local_session_id]

\* new_hello_ack_packet
new_hello_ack_packet(h, addr, dh_public_key, our_session_id, their_session_id) ==
    LET body == [dh_public_key |-> dh_public_key,
                 source_session_id |-> their_session_id,
                 server_session_id |-> our_session_id]
    IN [src |-> h, dst |-> addr,
        node_public_key |-> public(private_key(h)),
        signature |-> sign(private_key(h), HelloAckBody(body)),
        dh_public_key |-> dh_public_key,
        source_session_id |-> their_session_id,
        server_session_id |-> our_session_id]

Send(type, p) == net' = [net EXCEPT ![type] = @ \cup {p}]

(***************************************************************************)
(* Initiator: connect_with_timeout and relay_with_timeout                  *)
(***************************************************************************)
ConnectTask(kind, h, target, expected, timeout, r, uid, dh, packet) ==
    [kind |-> kind, host |-> h, target |-> target, node_id |-> expected,
     timeout |-> timeout, elapsed |-> 0, stop |-> FALSE,
     local_session_id |-> r.id, uid |-> uid, dh_private_key |-> dh,
     packet |-> packet, hello_result |-> <<>>,
     pc |-> IF r.id = NoId THEN "OutOfSessions" ELSE "loop"]

\* The client of host h makes one call: a connect or a relay.
NoCallYet(h) == \A i \in 1..Len(connects) : connects[i].host # h

\* connect_with_timeout up to its retry loop: the session is registered and the
\* HELLO composed.
connect_with_timeout(h, target, expected, timeout) ==
    /\ NoCallYet(h)
    /\ Allocs(h) < MaxAllocs
    /\ keys < MaxKeys
    /\ LET r == Sessions_next_id(sessions[h], next_id[h])
           uid == NewUid(h)
           dh == keys + 1
           data == DirectSession(expected, NoId, NoId, TRUE, NoNode, timeout, uid)
           packet == new_hello_packet(h, target, dh, r.id)
       IN /\ InsertNewSession(h, r, data, "out")
          /\ keys' = dh
          /\ connects' = Append(connects,
                 ConnectTask("connect", h, target, expected, timeout, r, uid, dh, packet))
    /\ UNCHANGED <<cleaned, net, handlers, transporters, replies>>

\* relay_with_timeout up to its retry loop.
relay_with_timeout(h, relay, target, target_node_id, timeout) ==
    /\ NoCallYet(h)
    /\ Allocs(h) < MaxAllocs
    /\ keys < MaxKeys
    /\ LET r == Sessions_next_id(sessions[h], next_id[h])
           uid == NewUid(h)
           dh == keys + 1
           data == DirectSession(target_node_id, NoId, NoId, TRUE, server_node_id(relay),
                                 timeout, uid)
           packet == new_relay_hello_packet(h, relay, target, r.id, x25519_public(dh))
       IN /\ InsertNewSession(h, r, data, "out")
          /\ keys' = dh
          /\ connects' = Append(connects,
                 ConnectTask("relay", h, relay, target_node_id, timeout, r, uid, dh,
                             packet))
    /\ UNCHANGED <<cleaned, net, handlers, transporters, replies>>

\* One pass of the retry loop without a result: the packet is (re)sent.
connect_send(i) ==
    LET c == connects[i] IN
    /\ c.pc = "loop"
    /\ ~c.stop
    /\ c.elapsed < c.timeout
    /\ Send(IF c.kind = "connect" THEN "hello" ELSE "relay_hello", c.packet)
    /\ UNCHANGED <<sessions, next_id, allocated, cleaned, keys, connects,
                   handlers, transporters, replies>>

\* Transporter::new_with_receiver, as the initiator calls it.
InitiatorTransporter(c, res) ==
    [host |-> c.host, peer |-> c.target, role |-> c.kind,
     encrypt_session_id |-> res.encrypt_session_id,
     local_session_id |-> c.local_session_id,
     dest_session_id |-> res.dest_session_id,
     dh_private_key |-> c.dh_private_key,
     their_public_key |-> res.their_public_key,
     their_node_id |-> res.their_node_id,
     uid |-> c.uid, open |-> TRUE]

\* The select! branch that receives the hello result.
connect_receive(i) ==
    LET c == connects[i]
        res == c.hello_result[1]
    IN
    /\ c.pc = "loop"
    /\ c.hello_result # <<>>
    /\ IF c.node_id # NoNode /\ res.their_node_id # c.node_id
       THEN /\ connects' = [connects EXCEPT ![i].pc = "InvalidNodeId"]
            /\ sessions' = [sessions EXCEPT ![c.host] =
                   WithSession(@, c.local_session_id, c.uid, "packet_receiver", FALSE)]
            /\ UNCHANGED transporters
       ELSE /\ connects' = [connects EXCEPT ![i].pc = "connected"]
            /\ transporters' = transporters \cup {InitiatorTransporter(c, res)}
            /\ sessions' = [sessions EXCEPT ![c.host] =
                   WithSession(@, c.local_session_id, c.uid, "handle", TRUE)]
    /\ UNCHANGED <<next_id, allocated, cleaned, keys, net, handlers, replies>>

\* The caller sets the stop flag it passed to connect_with_timeout.
set_stop_flag(i) ==
    /\ connects[i].pc = "loop"
    /\ ~connects[i].stop
    /\ connects' = [connects EXCEPT ![i].stop = TRUE]
    /\ UNCHANGED <<sessions, next_id, allocated, cleaned, keys, net, handlers,
                   transporters, replies>>

\* A plausible bug: the stop flag is not looked at when the loop has ended.
connect_give_up_timeout_only(i) ==
    LET c == connects[i] IN
    /\ c.pc = "loop"
    /\ c.stop \/ c.elapsed >= c.timeout
    /\ connects' = [connects EXCEPT ![i].pc = "Timeout"]
    /\ sessions' = [sessions EXCEPT ![c.host] =
           WithSession(@, c.local_session_id, c.uid, "packet_receiver", FALSE)]
    /\ UNCHANGED <<next_id, allocated, cleaned, keys, net, handlers,
                   transporters, replies>>

\* The retry loop ends without a result.
connect_give_up(i) ==
    LET c == connects[i] IN
    /\ c.pc = "loop"
    /\ c.stop \/ c.elapsed >= c.timeout
    /\ connects' = [connects EXCEPT ![i].pc =
           IF c.stop /\ c.kind = "connect" THEN "ConnectionClosed" ELSE "Timeout"]
    /\ sessions' = [sessions EXCEPT ![c.host] =
           WithSession(@, c.local_session_id, c.uid, "packet_receiver", FALSE)]
    /\ UNCHANGED <<next_id, allocated, cleaned, keys, net, handlers,
                   transporters, replies>>

(***************************************************************************)
(* Responder: process_hello_packet and _process_hello_packet               *)
(***************************************************************************)
\* parse_hello_packet: the signature check over the body.
parse_hello_packet_ok(p) == verify(p.node_public_key, HelloBody(p), p.signature)

\* A plausible bug: the lookup and the insert are not under one lock, so a HELLO
\* handled while the handler that creates the session is at work finds nothing.
new_incomming_session_unlocked(h, their_node_id, dest_session_id, encrypt_session_id, timeout, res) ==
    LET found == IF \E hd \in handlers : /\ hd.host = h
                                         /\ hd.is_new
                                         /\ hd.their_node_id = their_node_id
                                         /\ hd.dest_session_id = dest_session_id
                 THEN {}
                 ELSE find_their_session(sessions[h], their_node_id, dest_session_id)
    IN IF found # {}
       THEN /\ res.our_session_id \in found
            /\ res.is_new = FALSE
            /\ res.uid = sessions[h][res.our_session_id].uid
            /\ UNCHANGED <<sessions, next_id, allocated>>
       ELSE LET r == Sessions_next_id(sessions[h], next_id[h])
                data == DirectSession(their_node_id, dest_session_id,
                                      encrypt_session_id, FALSE, NoNode, timeout,
                                      NewUid(h))
            IN /\ Allocs(h) < MaxAllocs
               /\ res.our_session_id = r.id
               /\ res.is_new = TRUE
               /\ res.uid = data.uid
               /\ InsertNewSession(h, r, data, "in")

\* new_incomming_session with the result of find_their_session: the existing
\* session (is_new = FALSE) or a session under a new id (is_new = TRUE).
new_incomming_session(h, their_node_id, dest_session_id, encrypt_session_id, timeout, res) ==
    LET found == find_their_session(sessions[h], their_node_id, dest_session_id)
    IN IF found # {}
       THEN /\ res.our_session_id \in found
            /\ res.is_new = FALSE
            /\ res.uid = sessions[h][res.our_session_id].uid
            /\ UNCHANGED <<sessions, next_id, allocated>>
       ELSE LET r == Sessions_next_id(sessions[h], next_id[h])
                data == DirectSession(their_node_id, dest_session_id,
                                      encrypt_session_id, FALSE, NoNode, timeout,
                                      NewUid(h))
            IN /\ Allocs(h) < MaxAllocs
               /\ res.our_session_id = r.id
               /\ res.is_new = TRUE
               /\ res.uid = data.uid
               /\ InsertNewSession(h, r, data, "in")

IncomingResults(h) ==
    [our_session_id : (DOMAIN sessions[h]) \cup {Sessions_next_id(sessions[h], next_id[h]).id},
     is_new : BOOLEAN,
     uid : 1..(MaxAllocs + 1)]

\* process_hello_packet and the first part of _process_hello_packet: the HELLO is
\* parsed, the session looked up or registered and the ephemeral DH key generated.
\* _process_hello_packet up to the reply: the session the HELLO opens is looked up
\* or created and the key for it generated. addr is where the reply is sent.
\* The same with at most limit handlers at work at a time.
_process_hello_packet_among(limit, h, addr, p, dest_session_id, encrypt_session_id) ==
    /\ Cardinality(handlers) < limit
    /\ keys < MaxKeys
    /\ \E res \in IncomingResults(h) :
          /\ new_incomming_session(h, generate_address(p.node_public_key),
                                   dest_session_id, encrypt_session_id, default_timeout, res)
          /\ IF res.our_session_id = NoId
             THEN UNCHANGED <<handlers, keys>>
             ELSE /\ keys' = keys + 1
                  /\ handlers' = handlers \cup
                       {[host |-> h, addr |-> addr, hello |-> p,
                         their_node_id |-> generate_address(p.node_public_key),
                         dest_session_id |-> dest_session_id,
                         encrypt_session_id |-> encrypt_session_id,
                         our_session_id |-> res.our_session_id,
                         is_new |-> res.is_new, uid |-> res.uid,
                         dh_private_key |-> keys + 1]}
    /\ UNCHANGED <<cleaned, net, connects, transporters, replies>>

_process_hello_packet(h, addr, p, dest_session_id, encrypt_session_id) ==
    _process_hello_packet_among(MaxHandlers, h, addr, p, dest_session_id, encrypt_session_id)

process_hello_packet(h, p) ==
    /\ p \in net.hello
    /\ p.dst = h
    /\ parse_hello_packet_ok(p)
    /\ _process_hello_packet(h, p.src, p, p.session_id, p.session_id)

\* process_relayed_hello_packet: the HELLO a relayer forwarded is answered as a
\* HELLO is, to the relayer's address and with the relayer's session id as the
\* session the reply is directed to.
process_relayed_hello_packet(h, p) ==
    /\ p \in net.relayed_hello
    /\ p.dst = h
    /\ parse_hello_packet_ok(p)
    /\ _process_hello_packet(h, p.src, p, p.relayer_session_id, p.session_id)

\* Transporter::new_with_receiver, as the responder calls it.
ResponderTransporter(hd) ==
    [host |-> hd.host, peer |-> hd.addr, role |-> "accept",
     encrypt_session_id |-> hd.encrypt_session_id,
     local_session_id |-> hd.our_session_id,
     dest_session_id |-> hd.dest_session_id,
     dh_private_key |-> hd.dh_private_key,
     their_public_key |-> hd.hello.dh_public_key,
     their_node_id |-> hd.their_node_id,
     uid |-> hd.uid, open |-> TRUE]

\* The HELLO_ACK _process_hello_packet composes.
HelloAckOf(hd) ==
    new_hello_ack_packet(hd.host, hd.addr, x25519_public(hd.dh_private_key),
                         hd.our_session_id, hd.dest_session_id)

\* The rest of _process_hello_packet: the HELLO_ACK is composed and sent; for a new
\* session the transporter is spawned first, for a known one the activity refreshed.
process_hello_packet_reply(hd) ==
    /\ hd \in handlers
    /\ handlers' = handlers \ {hd}
    /\ Send("hello_ack", HelloAckOf(hd))
    /\ replies' = replies \cup {[hello |-> hd.hello, ack |-> HelloAckOf(hd),
                                  host |-> hd.host, uid |-> hd.uid]}
    /\ IF ~hd.is_new
       THEN /\ sessions' = [sessions EXCEPT ![hd.host] =
                   WithSession(@, hd.our_session_id, hd.uid, "idle", 0)]
            /\ UNCHANGED transporters
       ELSE /\ transporters' = transporters \cup {ResponderTransporter(hd)}
            /\ sessions' = [sessions EXCEPT ![hd.host] =
                   WithSession(@, hd.our_session_id, hd.uid, "handle", TRUE)]
    /\ UNCHANGED <<next_id, allocated, cleaned, keys, connects>>

(***************************************************************************)
(* Initiator: process_hello_ack_packet                                     *)
(***************************************************************************)
\* A plausible bug: only the signature is checked, not whose key signed.
verify_hello_ack_packet_raw_signature_only(their_node_id, p) ==
    verify(p.node_public_key, HelloAckBody(p), p.signature)

\* verify_hello_ack_packet_raw
verify_hello_ack_packet_raw(their_node_id, p) ==
    /\ generate_address(p.node_public_key) = their_node_id
    /\ verify(p.node_public_key, HelloAckBody(p), p.signature)

\* A plausible bug: the ids of the HELLO_ACK are taken the wrong way round.
HelloResult_own_id(their_node_id, p) ==
    [their_node_id |-> their_node_id,
     encrypt_session_id |-> p.source_session_id,
     dest_session_id |-> p.source_session_id,
     their_public_key |-> p.dh_public_key]

\* The hello result process_hello_ack_packet sends to the waiting connect:
\* (their_node_id, _, encrypt_session_id, dest_session_id, their_public_key, _)
HelloResult(their_node_id, p) ==
    [their_node_id |-> their_node_id,
     encrypt_session_id |-> p.server_session_id,
     dest_session_id |-> p.server_session_id,
     their_public_key |-> p.dh_public_key]

\* The connect calls whose hello receiver is the other end of the channel of
\* session (id, uid) of host h.
Waiting(h, uid) ==
    {i \in 1..Len(connects) :
        connects[i].host = h /\ connects[i].uid = uid /\ connects[i].pc = "loop"}

\* The error verify_hello_ack_packet_raw returns: the node id is checked first,
\* the signature second.
verify_hello_ack_packet_raw_error(their_node_id, p) ==
    IF generate_address(p.node_public_key) # their_node_id THEN "InvalidNodeId"
    ELSE "InvalidSignature"

\* A plausible bug: a HELLO_ACK is handed to the hello channel whether the channel
\* was taken before or not.
process_hello_ack_packet_result_again(h, p) ==
    IF p.source_session_id \notin DOMAIN sessions[h] THEN "InvalidSessionId"
    ELSE LET session == sessions[h][p.source_session_id]
             their_node_id == IF session.their_node_id # NoNode
                              THEN session.their_node_id
                              ELSE generate_address(p.node_public_key)
         IN IF ~verify_hello_ack_packet_raw(their_node_id, p)
            THEN verify_hello_ack_packet_raw_error(their_node_id, p)
            ELSE IF session.kind # "Direct" THEN "panic"
            ELSE IF session.relay_node_id # NoNode THEN "SessionNotForRelaying"
            ELSE "Sent"

\* What process_hello_ack_packet does with HELLO_ACK p at host h: the error it
\* returns, "Ok" for an answer handled before, "panic" on a relay session, or
\* "Sent" when it hands the hello result to the waiting connect.
process_hello_ack_packet_result(h, p) ==
    IF p.source_session_id \notin DOMAIN sessions[h] THEN "InvalidSessionId"
    ELSE LET session == sessions[h][p.source_session_id]
             their_node_id == IF session.their_node_id # NoNode
                              THEN session.their_node_id
                              ELSE generate_address(p.node_public_key)
         IN IF ~verify_hello_ack_packet_raw(their_node_id, p)
            THEN verify_hello_ack_packet_raw_error(their_node_id, p)
            ELSE IF session.kind # "Direct" THEN "panic"
            ELSE IF ~session.hello_channel THEN "Ok"
            ELSE IF session.relay_node_id # NoNode THEN "SessionNotForRelaying"
            ELSE "Sent"

\* A HELLO_ACK that was altered on its way: the DH key replaced under the old
\* signature, or the whole packet signed anew by a stranger.
Altered(p) ==
    {[p EXCEPT !.dh_public_key = x25519_public(0)]} \cup
    {[p EXCEPT !.node_public_key = public(private_key(d)),
               !.signature = sign(private_key(d), HelloAckBody(p))] : d \in Strangers}

\* The HELLO_ACKs in the network that no responder sent.
AlteredAcks == {x \in net.hello_ack : x \notin {r.ack : r \in replies}}

\* The network delivers an altered copy q of HELLO_ACK p.
receive_altered_hello_ack(p, q) ==
    /\ p \in net.hello_ack \ AlteredAcks
    /\ q \in Altered(p)
    /\ Cardinality(AlteredAcks) < MaxDatagrams
    /\ Send("hello_ack", q)
    /\ UNCHANGED <<sessions, next_id, allocated, cleaned, keys, connects,
                   handlers, transporters, replies>>

process_hello_ack_packet(h, p) ==
    /\ p \in net.hello_ack
    /\ p.dst = h
    /\ p.source_session_id \in DOMAIN sessions[h]
    /\ LET session == sessions[h][p.source_session_id]
           their_node_id == IF session.their_node_id # NoNode
                            THEN session.their_node_id
                            ELSE generate_address(p.node_public_key)
       IN /\ process_hello_ack_packet_result(h, p) = "Sent"
          /\ sessions' = [sessions EXCEPT ![h][p.source_session_id].hello_channel = FALSE]
          /\ connects' = [i \in 1..Len(connects) |->
                 IF i \in Waiting(h, session.uid)
                 THEN [connects[i] EXCEPT !.hello_result = <<HelloResult(their_node_id, p)>>]
                 ELSE connects[i]]
    /\ UNCHANGED <<next_id, allocated, cleaned, keys, net, handlers,
                   transporters, replies>>

(***************************************************************************)
(* Relayer: process_relay_hello_packet                                     *)
(***************************************************************************)
\* new_relay_session
new_relay_session(h, target_node_id, source_session_id, source_addr, target_addr, keep_alive_timeout, r) ==
    InsertNewSession(h, r,
        RelaySession(target_node_id, source_session_id, source_addr, target_addr,
                     keep_alive_timeout, NewUid(h)),
        "relay")

process_relay_hello_packet(h, p) ==
    /\ p \in net.relay_hello
    /\ p.dst = h
    /\ verify(p.node_public_key, HelloBody(p), p.signature)
    /\ Allocs(h) < MaxAllocs
    /\ LET r == Sessions_next_id(sessions[h], next_id[h])
       IN /\ new_relay_session(h, generate_address(p.node_public_key), p.session_id,
                               p.src, p.target, DEFAULT_TIMEOUT, r)
          /\ IF r.id = NoId
             THEN UNCHANGED net
             ELSE Send("relayed_hello",
                       [src |-> h, dst |-> p.target, relayer_session_id |-> r.id,
                        node_public_key |-> p.node_public_key,
                        signature |-> p.signature,
                        dh_public_key |-> p.dh_public_key,
                        session_id |-> p.session_id])
    /\ UNCHANGED <<cleaned, keys, connects, handlers, transporters, replies>>

(***************************************************************************)
(* CRYPTED packets                                                         *)
(***************************************************************************)
\* A transporter sends a CRYPTED packet: the wire session id is its
\* dest_session_id.
transporter_send(t) ==
    /\ t \in transporters
    /\ t.open
    /\ Send("crypted", [src |-> t.host, dst |-> t.peer, session_id |-> t.dest_session_id,
                        data |-> <<t.host, t.local_session_id>>])
    /\ UNCHANGED <<sessions, next_id, allocated, cleaned, keys, connects,
                   handlers, transporters, replies>>

\* The connection over a transporter is closed or dropped: the transporter ends
\* and with it the receiving end of the session's packet queue.
close_connection(t) ==
    /\ t \in transporters
    /\ t.open
    /\ transporters' = (transporters \ {t}) \cup {[t EXCEPT !.open = FALSE]}
    /\ sessions' = [sessions EXCEPT ![t.host] =
           WithSession(@, t.local_session_id, t.uid, "packet_receiver", FALSE)]
    /\ UNCHANGED <<next_id, allocated, cleaned, keys, net, connects, handlers,
                   replies>>

\* The network hands the server a CRYPTED datagram that none of the model's
\* transporters sent: whatever its sender's address, it is dispatched on its type
\* and session id alone.
Datagrams == {p \in net.crypted : p.data[1] = "datagram"}

receive_datagram(src, dst, session_id) ==
    /\ Cardinality(Datagrams) < MaxDatagrams
    /\ Send("crypted", [src |-> src, dst |-> dst, session_id |-> session_id,
                        data |-> <<"datagram", src>>])
    /\ UNCHANGED <<sessions, next_id, allocated, cleaned, keys, connects,
                   handlers, transporters, replies>>

\* A plausible bug: the relayer sends a header of its own instead of the rest of
\* the packet it received.
relay_crypted_packet_reframed(h, to, new_session_id, p) ==
    [src |-> h, dst |-> to, session_id |-> new_session_id, data |-> <<h, new_session_id>>]

\* relay_crypted_packet: the packet with the session id replaced.
relay_crypted_packet(h, to, new_session_id, p) ==
    [src |-> h, dst |-> to, session_id |-> new_session_id, data |-> p.data]

process_crypted_packet(h, p) ==
    /\ p \in net.crypted
    /\ p.dst = h
    /\ p.session_id \in DOMAIN sessions[h]
    /\ LET session == sessions[h][p.session_id]
           should_close == session.kind = "Direct" /\ ~session.packet_receiver
       IN /\ sessions' = [sessions EXCEPT ![h] =
                 IF should_close
                 THEN MapRemove(@, {p.session_id})
                 ELSE [@ EXCEPT ![p.session_id].idle = 0]]
          /\ IF session.kind = "Relay" /\ p.src = session.source_addr
             THEN Send("crypted", relay_crypted_packet(h, session.target_addr,
                                                       session.target_session_id, p))
             ELSE IF session.kind = "Relay" /\ p.src = session.target_addr
             THEN Send("crypted", relay_crypted_packet(h, session.source_addr,
                                                       session.source_session_id, p))
             ELSE UNCHANGED net
    /\ UNCHANGED <<next_id, allocated, cleaned, keys, connects, handlers,
                   transporters, replies>>

(***************************************************************************)
(* The session cleaner                                                     *)
(***************************************************************************)
\* A plausible bug: the comparison is turned around.
Expired_inverted(session) == session.idle <= session.keep_alive_timeout

\* The test of clean_sessions: now - last_activity >= keep_alive_timeout
Expired(session) == session.idle >= session.keep_alive_timeout

\* A plausible bug: relay sessions are treated like direct ones.
done_ids_direct_only(map) ==
    {s \in DOMAIN map : Expired(map[s]) /\ map[s].kind = "Direct" /\ ~map[s].handle}

\* The ids clean_sessions collects in done_ids.
done_ids(map) ==
    {s \in DOMAIN map :
        /\ Expired(map[s])
        /\ \/ map[s].kind = "Direct" /\ ~map[s].handle
           \/ map[s].kind = "Relay"}

\* The map after a pass of clean_sessions: an expired direct session loses its
\* transporter handle, the sessions in done_ids are removed.
clean_map(map) ==
    MapRemove([s \in DOMAIN map |->
                  IF Expired(map[s]) /\ map[s].kind = "Direct" /\ map[s].handle
                  THEN [map[s] EXCEPT !.handle = FALSE]
                  ELSE map[s]],
              done_ids(map))

\* One pass of the garbage collector spawn_garbage_collector runs.
clean_sessions(h) ==
    /\ sessions' = [sessions EXCEPT ![h] = clean_map(@)]
    /\ cleaned' = cleaned \cup
           {[host |-> h, id |-> s, uid |-> sessions[h][s].uid,
             kind |-> sessions[h][s].kind] : s \in done_ids(sessions[h])}
    /\ UNCHANGED <<next_id, allocated, keys, net, connects, handlers,
                   transporters, replies>>

\* Server::set_next_session_id
set_next_session_id(h, id) ==
    /\ id # next_id[h]
    /\ next_id' = [next_id EXCEPT ![h] = id]
    /\ UNCHANGED <<sessions, allocated, cleaned, keys, net, connects, handlers,
                   transporters, replies>>

\* Time passes: every session has been idle, and every connect has been waiting,
\* for one tick more (counted up to the longest timeout).
Older(n) == IF n < MaxTime THEN n + 1 ELSE n

Tick ==
    /\ sessions' = [h \in DOMAIN sessions |-> [s \in DOMAIN sessions[h] |->
           [sessions[h][s] EXCEPT !.idle = Older(@)]]]
    /\ connects' = [i \in 1..Len(connects) |->
           IF connects[i].pc = "loop"
           THEN [connects[i] EXCEPT !.elapsed = Older(@)]
           ELSE connects[i]]
    /\ UNCHANGED <<next_id, allocated, cleaned, keys, net, handlers,
                   transporters, replies>>

(***************************************************************************)
(* Ids: IdType, its XOR distance and the highest bit two ids differ at.    *)
(***************************************************************************)
Ids == 0..(2^IdBits - 1)
NoBit == 0 - 1

RECURSIVE xor(_, _, _)
xor(a, b, bits) ==
    IF bits = 0 THEN 0
    ELSE ((a + b) % 2) + (2 * xor(a \div 2, b \div 2, bits - 1))

\* distance(a, b) = a XOR b, as a natural number
distance(a, b) == xor(a, b, IdBits)

\* IdType::differs_at_bit: the index of the highest bit that differs, or none
differs_at_bit(a, b) ==
    IF a = b THEN NoBit
    ELSE CHOOSE i \in 0..(IdBits - 1) :
             2^i <= distance(a, b) /\ distance(a, b) < 2^(i + 1)

\* A plausible bug: the owner's own id is sent to bucket 0.
Node_differs_at_bit_or_zero(node_id, other_id) ==
    IF node_id = other_id THEN 0 ELSE differs_at_bit(node_id, other_id)

\* Node::differs_at_bit
Node_differs_at_bit(node_id, other_id) == differs_at_bit(node_id, other_id)

(***************************************************************************)
(* Fingers: NodeContactInfo, with the contact option pick_contact_option   *)
(* chooses for it and the openness the node advertises there.              *)
(***************************************************************************)
NodeContactInfo(node_id, contact, openness) ==
    [node_id |-> node_id, contact |-> contact, openness |-> openness]

\* ContactStrategy::new: the method for a finger learned from a response
ContactStrategy_new(openness) ==
    CASE openness = "Bidirectional" -> "Direct"
      [] openness = "Punchable" -> "HolePunch"
      [] openness = "Unidirectional" -> "Relay"

\* The openness a node advertises at a contact option
Openness == {"Bidirectional", "Punchable", "Unidirectional"}

\* A plausible bug: the two cases of a remote open in one direction are swapped.
pick_contact_strategy_swapped(own_openness, openness) ==
    CASE openness = "Bidirectional" -> "Direct"
      [] openness = "Punchable" -> "HolePunch"
      [] openness = "Unidirectional" ->
            IF own_openness = "Unidirectional" THEN "HolePunch" ELSE "Relay"

\* Node::pick_contact_strategy: the method for a seed finger
pick_contact_strategy(own_openness, openness) ==
    CASE openness = "Bidirectional" -> "Direct"
      [] openness = "Punchable" -> "HolePunch"
      [] openness = "Unidirectional" ->
            IF own_openness # "Unidirectional" THEN "HolePunch" ELSE "Relay"

\* The fingers the lookups are fed with: node n at its own address, node 1
\* advertising the address of node 0, and node 2 open in one direction only.
PoolIds == 0..(PoolSize - 1)
FingerPool ==
    {NodeContactInfo(n, n, "Bidirectional") : n \in PoolIds}
        \cup {NodeContactInfo(1, 0, "Bidirectional"),
              NodeContactInfo(2, 2, "Unidirectional")}

\* A set of fingers as a list, in ascending or descending order of (id, contact,
\* openness).
OpennessRank(o) ==
    CASE o = "Bidirectional" -> 0 [] o = "Punchable" -> 1 [] o = "Unidirectional" -> 2

Before(f, g) ==
    \/ f.node_id < g.node_id
    \/ f.node_id = g.node_id /\ f.contact < g.contact
    \/ f.node_id = g.node_id /\ f.contact = g.contact
         /\ OpennessRank(f.openness) < OpennessRank(g.openness)

RECURSIVE Ascending(_)
Ascending(S) ==
    IF S = {} THEN <<>>
    ELSE LET f == CHOOSE x \in S : \A y \in S \ {x} : Before(x, y)
         IN <<f>> \o Ascending(S \ {f})

Reverse(seq) == [k \in 1..Len(seq) |-> seq[Len(seq) + 1 - k]]

FingerLists(pool, n) ==
    LET sets == {S \in SUBSET pool : Cardinality(S) <= n}
    IN {Ascending(S) : S \in sets} \cup {Reverse(Ascending(S)) : S \in sets}

(***************************************************************************)
(* Candidate queues                                                        *)
(***************************************************************************)
\* An entry of a candidate queue: (distance, NodeContactInfo, ContactStrategy)
Candidate(id, finger, method) ==
    [dist |-> distance(id, finger.node_id), info |-> finger, method |-> method]

\* A plausible bug: the candidate is put at the back whatever its distance.
insert_candidate_at_back(candidates, c) == Append(candidates, c)

\* Node::insert_candidate: before the first entry that is strictly farther
insert_candidate(candidates, c) ==
    LET farther == {k \in 1..Len(candidates) : c.dist < candidates[k].dist}
    IN IF farther = {}
       THEN Append(candidates, c)
       ELSE LET k == CHOOSE x \in farther : \A y \in farther : x <= y
            IN SubSeq(candidates, 1, k - 1) \o <<c>>
                   \o SubSeq(candidates, k, Len(candidates))

\* Node::append_candidates
RECURSIVE append_candidates(_, _)
append_candidates(candidates, new) ==
    IF new = <<>> THEN candidates
    ELSE append_candidates(insert_candidate(candidates, Head(new)), Tail(new))

\* Node::sort_fingers: a stable sort by distance
sort_fingers(id, own_openness, fingers) ==
    append_candidates(<<>>,
        [k \in 1..Len(fingers) |->
            Candidate(id, fingers[k],
                      pick_contact_strategy(own_openness, fingers[k].openness))])

\* A plausible bug: the queue is left as long as it is.
not_truncated(queue, n) == queue

\* while queue.len() > n { queue.pop_back() }
truncate(queue, n) == IF Len(queue) > n THEN SubSeq(queue, 1, n) ELSE queue

\* A FindNodeResponse: its fingers and the connection it may name
FindNodeResponse(fingers, connection) ==
    [fingers |-> fingers, connection |-> connection]

\* Node::extract_fingers_from_response: the fingers, then the connection, whose
\* contact option was not visited, each with its strategy
extract_fingers_from_response(id, response, visited) ==
    LET all == response.fingers \o response.connection
        unvisited(f) == \A k \in 1..Len(visited) : visited[k][2] # f.contact
        kept == SelectSeq(all, unvisited)
    IN [k \in 1..Len(kept) |->
           Candidate(id, kept[k], ContactStrategy_new(kept[k].openness))]

(***************************************************************************)
(* Buckets                                                                 *)
(***************************************************************************)
Buckets == 0..(IdBits - 1)

\* An entry of a bucket: the finger and what the bucket remembers of it
Entry(finger) == [info |-> finger, problematic |-> FALSE, obtained |-> FALSE]

\* Bucket::public_fingers
public_fingers(bucket) == [k \in 1..Len(bucket) |-> bucket[k].info]

\* The loops of find_nearest_fingers and find_nearest_contacts: the fingers of
\* the buckets in the given order, up to bucket_size of them
RECURSIVE collect_fingers(_, _, _, _)
collect_fingers(buckets, order, bucket_size, fingers) ==
    IF order = <<>> \/ Len(fingers) >= bucket_size THEN fingers
    ELSE LET additional == public_fingers(buckets[Head(order)])
             remaining == bucket_size - Len(fingers)
         IN collect_fingers(buckets, Tail(order), bucket_size,
                fingers \o IF remaining <= Len(additional)
                           THEN SubSeq(additional, 1, remaining)
                           ELSE additional)

\* The indices from down to 0, in that order
Downto(from) == [k \in 1..(from + 1) |-> from + 1 - k]

\* Node::find_nearest_fingers
find_nearest_fingers(n, id) ==
    LET bucket_pos == Node_differs_at_bit(n.node_id, id)
    IN IF bucket_pos = NoBit THEN <<>>
       ELSE collect_fingers(n.buckets,
                [k \in 1..(IdBits - bucket_pos) |-> bucket_pos + k - 1]
                    \o (IF bucket_pos = 0 THEN <<>> ELSE Downto(bucket_pos - 1)),
                n.bucket_size, <<>>)

\* Node::find_nearest_contacts
find_nearest_contacts(n, id) ==
    LET bucket_pos == Node_differs_at_bit(n.node_id, id)
    IN IF bucket_pos = NoBit THEN <<>>
       ELSE collect_fingers(n.buckets, Downto(bucket_pos), n.bucket_size, <<>>)

\* Bucket::mark_helpful: the finger is known from now on; a full bucket gives up
\* its oldest entry for it
Bucket_mark_helpful(bucket, finger, bucket_size) ==
    IF \E k \in 1..Len(bucket) : bucket[k].info.node_id = finger.node_id
    THEN [k \in 1..Len(bucket) |->
             IF bucket[k].info.node_id = finger.node_id
             THEN [bucket[k] EXCEPT !.problematic = FALSE]
             ELSE bucket[k]]
    ELSE IF Len(bucket) < bucket_size
         THEN Append(bucket, Entry(finger))
         ELSE Append(Tail(bucket), Entry(finger))

\* Bucket::mark_problematic: the entry stays, demoted
Bucket_mark_problematic(bucket, node_id) ==
    [k \in 1..Len(bucket) |->
        IF bucket[k].info.node_id = node_id
        THEN [bucket[k] EXCEPT !.problematic = TRUE]
        ELSE bucket[k]]

\* Bucket::reject: the entry is removed
Bucket_reject(bucket, node_id) ==
    LET other(e) == e.info.node_id # node_id IN SelectSeq(bucket, other)

\* Bucket::mark_obtained_value
Bucket_mark_obtained_value(bucket, node_id) ==
    [k \in 1..Len(bucket) |->
        IF bucket[k].info.node_id = node_id
        THEN [bucket[k] EXCEPT !.obtained = TRUE]
        ELSE bucket[k]]

\* The buckets with bucket index replaced; unchanged when there is no index.
WithBucket(buckets, index, bucket) ==
    IF index = NoBit THEN buckets ELSE [buckets EXCEPT ![index] = bucket]

BucketAt(buckets, index) == IF index = NoBit THEN <<>> ELSE buckets[index]

\* Node::mark_node_helpful
mark_node_helpful(node_info) ==
    LET index == Node_differs_at_bit(node.node_id, node_info.node_id)
    IN /\ node' = [node EXCEPT !.buckets = WithBucket(@, index,
                      Bucket_mark_helpful(BucketAt(@, index), node_info,
                                          node.bucket_size))]
       /\ UNCHANGED <<peers, lookup, search, sstpVars, lockVars, callVars>>

\* Node::mark_node_problematic
mark_node_problematic(node_id) ==
    LET index == Node_differs_at_bit(node.node_id, node_id)
    IN /\ node' = [node EXCEPT !.buckets = WithBucket(@, index,
                      Bucket_mark_problematic(BucketAt(@, index), node_id))]
       /\ UNCHANGED <<peers, lookup, search, sstpVars, lockVars, callVars>>

\* Node::reject_node
reject_node(node_id) ==
    LET index == Node_differs_at_bit(node.node_id, node_id)
    IN /\ node' = [node EXCEPT !.buckets = WithBucket(@, index,
                      Bucket_reject(BucketAt(@, index), node_id))]
       /\ UNCHANGED <<peers, lookup, search, sstpVars, lockVars, callVars>>

\* sstp::Error: the errors an interaction with a peer ends in
Errors ==
    {"Timeout", "ConnectionClosed", "InvalidSignature", "InvalidNodeId",
     "InvalidMessageType", "InvalidSessionId", "MalformedMessage",
     "OutOfSessions", "NoConnectionOptions", "Io"}

\* The protocol violations among them
Violations ==
    {"InvalidSignature", "InvalidNodeId", "InvalidMessageType",
     "InvalidSessionId", "MalformedMessage"}

\* Error::forgivable: every error but a protocol violation
forgivable(e) == e \notin Violations

\* sstp::Result<T>
Err(e) == [ok |-> FALSE, error |-> e]
Ok == [ok |-> TRUE, error |-> "none"]

\* What Node::handle_connection_issue and Node::connect return: Some or None
returned_option(result) == IF result.ok THEN "Some" ELSE "None"

\* Node::handle_connection_issue
handle_connection_issue(result, node_info) ==
    IF ~result.ok
    THEN IF result.error = "Timeout"
         THEN mark_node_problematic(node_info.node_id)
         ELSE IF ~forgivable(result.error)
              THEN reject_node(node_info.node_id)
              ELSE UNCHANGED vars
    ELSE mark_node_helpful(node_info)

\* Node::connect with the outcome of socket.connect; node_id is NoId when the
\* caller expects no particular node
Node_connect(result, node_id) ==
    IF result.ok
    THEN UNCHANGED vars
    ELSE IF node_id # NoId
         THEN mark_node_problematic(node_id)
         ELSE UNCHANGED vars

\* Node::find_bucket and Node::mark_obtained_value: the buckets afterwards
obtained_value_marked(n, node_id) ==
    LET index == Node_differs_at_bit(n.node_id, node_id)
    IN WithBucket(n.buckets, index,
           Bucket_mark_obtained_value(BucketAt(n.buckets, index), node_id))

mark_obtained_value(node_id) ==
    /\ node' = [node EXCEPT !.buckets = obtained_value_marked(node, node_id)]
    /\ UNCHANGED <<peers, lookup, search, sstpVars, lockVars, callVars>>

(***************************************************************************)
(* FIND_NODE: find_node and find_node_from_fingers                         *)
(***************************************************************************)
NoLookup ==
    [pc |-> "idle", id |-> 0, result_limit |-> 0, visit_limit |-> 0,
     candidates |-> <<>>, found |-> <<>>, visited |-> <<>>, i |-> 0,
     dialed |-> <<>>, failed |-> NoId, result |-> <<>>]

\* found.into_iter().map(|c| c.1).collect()
infos(queue) == [k \in 1..Len(queue) |-> queue[k].info]

\* The end of find_node_from_fingers
return_found(l) == [l EXCEPT !.pc = "done", !.result = infos(l.found)]

\* The test of the while loop: another iteration, or the end
loop_or_return(l) ==
    IF Len(l.candidates) > 0 /\ l.i < l.visit_limit
    THEN [l EXCEPT !.pc = "loop"]
    ELSE return_found(l)

\* find_node_from_fingers up to its loop: the candidates are the fingers sorted by
\* distance, without the owner; found is their first result_limit
lookup_from_fingers(id, fingers, result_limit, visit_limit) ==
    LET not_self(c) == c.info.node_id # node.node_id
        candidates == SelectSeq(sort_fingers(id, node.openness, fingers), not_self)
    IN loop_or_return(
           [NoLookup EXCEPT !.id = id, !.result_limit = result_limit,
                            !.visit_limit = visit_limit,
                            !.candidates = candidates,
                            !.found = truncate(candidates, result_limit)])

find_node_from_fingers_step(id, fingers, result_limit, visit_limit) ==
    /\ lookup.pc = "idle"
    /\ lookup' = lookup_from_fingers(id, fingers, result_limit, visit_limit)
    /\ UNCHANGED <<node, peers, search, sstpVars, lockVars>>

find_node_from_fingers(id, fingers, result_limit, visit_limit) ==
    /\ find_node_from_fingers_step(id, fingers, result_limit, visit_limit)
    /\ UNCHANGED callVars

\* Node::find_node
find_node(id, result_limit, hop_limit) ==
    LET fingers == find_nearest_fingers(node, id) IN
    /\ lookup.pc = "idle"
    /\ lookup' = IF Len(fingers) = 0
                 THEN [NoLookup EXCEPT !.pc = "done", !.id = id,
                                       !.result_limit = result_limit,
                                       !.visit_limit = hop_limit]
                 ELSE lookup_from_fingers(id, fingers, result_limit, hop_limit)
    /\ UNCHANGED <<node, peers, search, sstpVars, lockVars, callVars>>

\* A plausible bug: the visited list is searched for the contact option.
front_visited_by_contact(visited, candidate) ==
    \E k \in 1..Len(visited) : visited[k][2] = candidate.info.contact

\* The front candidate's node id is in the visited list
front_visited(visited, candidate) ==
    \E k \in 1..Len(visited) : visited[k][1] = candidate.info.node_id

\* An iteration that finds the front candidate visited: it is popped
find_node_skip_step ==
    /\ lookup.pc = "loop"
    /\ front_visited(lookup.visited, Head(lookup.candidates))
    /\ lookup' = loop_or_return([lookup EXCEPT !.candidates = Tail(@)])
    /\ UNCHANGED <<node, peers, search, sstpVars, lockVars>>

find_node_skip == find_node_skip_step /\ UNCHANGED callVars

\* What dialing a candidate and asking it comes to
Unreachable == [kind |-> "unreachable", response |-> FindNodeResponse(<<>>, <<>>)]
NoResponse == [kind |-> "no_response", response |-> FindNodeResponse(<<>>, <<>>)]
Responded(response) == [kind |-> "response", response |-> response]

\* A plausible bug: a finger as far as the candidate is taken as well.
is_not_farther(finger_dist, candidate_dist) == finger_dist <= candidate_dist

\* finger_dist < candidate_dist
is_closer(finger_dist, candidate_dist) == finger_dist < candidate_dist

\* A plausible bug: an iteration does not count.
next_i_stuck(i) == i

\* i += 1
next_i(i) == i + 1

\* The fingers of the response the front candidate gave that the lookup goes on
\* with: not the owner, directly reachable, nearer than the candidate, at a contact
\* option not visited
new_fingers_of(l, nd, outcome) ==
    LET c == Head(l.candidates)
        visited == Append(l.visited, <<c.info.node_id, c.info.contact>>)
        keep(f) == /\ f.info.node_id # nd.node_id
                   /\ f.method = "Direct"
                   /\ is_closer(f.dist, c.dist)
    IN SelectSeq(extract_fingers_from_response(l.id, outcome.response, visited),
                 keep)

\* An iteration that dials the front candidate and asks it for the id
find_node_dial_step(outcome) ==
    /\ lookup.pc = "loop"
    /\ ~front_visited(lookup.visited, Head(lookup.candidates))
    /\ LET c == Head(lookup.candidates)
           visited == Append(lookup.visited, <<c.info.node_id, c.info.contact>>)
           dialed == Append(lookup.dialed, c.info.node_id)
           new_fingers == new_fingers_of(lookup, node, outcome)
           found == truncate(append_candidates(lookup.found, new_fingers),
                             lookup.result_limit)
           exact == \E k \in 1..Len(new_fingers) :
                        new_fingers[k].info.node_id = lookup.id
           tried == [lookup EXCEPT !.visited = visited, !.dialed = dialed]
       IN lookup' =
            IF outcome.kind # "response"
            THEN loop_or_return([tried EXCEPT !.i = next_i(@),
                                              !.failed = c.info.node_id])
            ELSE IF exact
            THEN return_found([tried EXCEPT !.found = found])
            ELSE loop_or_return(
                     [tried EXCEPT !.found = found,
                                   !.candidates = truncate(
                                       append_candidates(@, new_fingers),
                                       node.bucket_size),
                                   !.i = next_i(@)])
    /\ UNCHANGED <<node, peers, search, sstpVars, lockVars>>

find_node_dial(outcome) == find_node_dial_step(outcome) /\ UNCHANGED callVars

\* Any answer a peer can give
Responses ==
    {FindNodeResponse(fingers, connection) :
        fingers \in FingerLists(FingerPool, MaxFingers),
        connection \in {<<>>, <<NodeContactInfo(0, 0, "Bidirectional")>>}}

Outcomes == {Unreachable, NoResponse} \cup {Responded(r) : r \in Responses}

(***************************************************************************)
(* A network of honest peers: every id is a peer at its own address, open  *)
(* in both directions, and answers from its buckets.                       *)
(***************************************************************************)
Peer(n) == NodeContactInfo(n, n, "Bidirectional")

\* The peers among known, from id n on, that belong to bucket b of owner
RECURSIVE known_peers(_, _, _, _)
known_peers(owner, known, b, n) ==
    IF n \notin Ids THEN <<>>
    ELSE (IF n \in known /\ differs_at_bit(owner, n) = b
          THEN <<Entry(Peer(n))>> ELSE <<>>)
             \o known_peers(owner, known, b, n + 1)

\* The buckets of a node that was told of the peers in known, in the order of
\* their ids
buckets_of(owner, known, bucket_size) ==
    [b \in Buckets |-> truncate(known_peers(owner, known, b, 0), bucket_size)]

\* Peer n as a Node, with the bucket size of the network
PeerNode(n) ==
    [node_id |-> n, bucket_size |-> node.bucket_size, openness |-> "Bidirectional",
     buckets |-> peers[n]]

\* process_find_node_request of the peer the front candidate names
HonestOutcome ==
    Responded(FindNodeResponse(
        find_nearest_contacts(PeerNode(Head(lookup.candidates).info.node_id),
                              lookup.id),
        <<>>))

(***************************************************************************)
(* FIND_VALUE: find_value_from_fingers_iter and FindValueIter::next        *)
(***************************************************************************)
NoValue == "none"
Values == {"v1", "v2"}

NoSearch ==
    [pc |-> "none", id |-> 0, candidates |-> <<>>, visited |-> <<>>,
     capacity |-> 0, narrow_down |-> FALSE, use_relays |-> FALSE, accepts |-> {},
     returned |-> <<>>, dials |-> 0, failed |-> NoId,
     last |-> [node_id |-> NoId, value |-> NoValue]]

\* What the verifier hands back for a value it accepts
Verified(finger, value) == <<"verified", finger.node_id, value>>

\* do_verify: the caller's verifier, which accepts the values in accepts
do_verify(accepts, finger, value) ==
    IF value \in accepts THEN <<Verified(finger, value)>> ELSE <<>>

\* A plausible bug: a value is handed on without asking the verifier.
unverified_result(accepts, finger, possible_value) ==
    IF possible_value # NoValue THEN <<Verified(finger, possible_value)>> ELSE <<>>

\* The end of an iteration of next: the result to return, if a value came and
\* the verifier accepts it
verified_result(accepts, finger, possible_value) ==
    IF possible_value # NoValue
    THEN do_verify(accepts, finger, possible_value)
    ELSE <<>>

find_value_from_fingers_iter(id, fingers, visit_limit, narrow_down, use_relays, accepts) ==
    /\ search.pc = "none"
    /\ search' = [NoSearch EXCEPT
                     !.pc = "ready", !.id = id,
                     !.candidates = sort_fingers(id, node.openness, fingers),
                     !.capacity = visit_limit,
                     !.narrow_down = narrow_down, !.use_relays = use_relays,
                     !.accepts = accepts]
    /\ UNCHANGED <<node, peers, lookup, sstpVars, lockVars, callVars>>

\* The test of the while loop of next
next_goes_on(s) == Len(s.candidates) > 0 /\ Len(s.visited) < s.capacity

\* A call of next begins
FindValueIter_next ==
    /\ search.pc = "ready"
    /\ search' = [search EXCEPT !.pc = "running", !.returned = <<>>]
    /\ UNCHANGED <<node, peers, lookup, sstpVars, lockVars, callVars>>

\* A plausible bug: a candidate that needs a relay is dialed whether relays are
\* used or not.
passed_over_but_for_relays(s, c) ==
    \/ c.info.node_id = node.node_id
    \/ \E k \in 1..Len(s.visited) : s.visited[k][2] = c.info.contact

\* A plausible bug: a candidate is dialed although its contact option was visited.
passed_over_unless_visited(s, c) ==
    \/ c.info.node_id = node.node_id
    \/ c.method = "Relay" /\ ~s.use_relays

\* The front candidate is passed over without a dial: it is the owner, its
\* contact option was visited, or it needs a relay and relays are not used
passed_over(s, c) ==
    \/ c.info.node_id = node.node_id
    \/ \E k \in 1..Len(s.visited) : s.visited[k][2] = c.info.contact
    \/ c.method = "Relay" /\ ~s.use_relays

\* Such a candidate is still pushed on the visited list when only the relay rule
\* stops it
FindValueIter_next_skip ==
    /\ search.pc = "running"
    /\ next_goes_on(search)
    /\ LET c == Head(search.candidates) IN
       /\ passed_over(search, c)
       /\ search' =
            [search EXCEPT
                !.candidates = Tail(@),
                !.visited =
                    IF \/ c.info.node_id = node.node_id
                       \/ \E k \in 1..Len(@) : @[k][2] = c.info.contact
                    THEN @
                    ELSE Append(@, <<c.info.node_id, c.info.contact>>)]
    /\ UNCHANGED <<node, peers, lookup, sstpVars, lockVars, callVars>>

\* What dialing a candidate and asking it for the value comes to: nothing, or a
\* possible value and possible contacts
ValueUnreachable ==
    [kind |-> "unreachable", possible_value |-> NoValue, possible_contacts |-> <<>>]
ValueNoResponse ==
    [kind |-> "no_response", possible_value |-> NoValue, possible_contacts |-> <<>>]
ValueResponded(possible_value, possible_contacts) ==
    [kind |-> "response", possible_value |-> possible_value,
     possible_contacts |-> possible_contacts]

\* Any answer to a FIND_VALUE request: a value or none, and no contacts or a
\* FindNodeResponse naming one finger or none
ValueOutcomes ==
    {ValueUnreachable, ValueNoResponse}
        \cup {ValueResponded(v, c) :
                 v \in Values \cup {NoValue},
                 c \in {<<>>} \cup
                       {<<FindNodeResponse(fingers, <<>>)>> :
                           fingers \in FingerLists(FingerPool, 1)}}

\* An iteration of next that dials the front candidate and asks it
FindValueIter_next_dial(outcome) ==
    /\ search.pc = "running"
    /\ next_goes_on(search)
    /\ LET c == Head(search.candidates)
           visited == Append(search.visited, <<c.info.node_id, c.info.contact>>)
           closer(f) == distance(search.id, f.info.node_id) < c.dist
           extracted ==
               IF outcome.possible_contacts = <<>> THEN <<>>
               ELSE extract_fingers_from_response(search.id,
                        outcome.possible_contacts[1], visited)
           new_fingers == IF search.narrow_down THEN SelectSeq(extracted, closer)
                          ELSE extracted
           appended == append_candidates(Tail(search.candidates), new_fingers)
           candidates == IF search.narrow_down /\ outcome.possible_contacts # <<>>
                         THEN truncate(appended, node.bucket_size)
                         ELSE appended
           result == verified_result(search.accepts, c.info, outcome.possible_value)
           tried == [search EXCEPT
                        !.candidates = Tail(@), !.visited = visited,
                        !.dials = @ + 1,
                        !.last = [node_id |-> c.info.node_id,
                                  value |-> outcome.possible_value]]
       IN /\ ~passed_over(search, c)
          /\ IF outcome.kind # "response"
             THEN /\ search' = [tried EXCEPT !.failed = c.info.node_id]
                  /\ UNCHANGED node
             ELSE LET asked == [tried EXCEPT !.candidates = candidates]
                  IN IF result # <<>>
                     THEN /\ search' = [asked EXCEPT !.pc = "ready",
                                                     !.returned = result]
                          /\ node' = [node EXCEPT !.buckets =
                                         obtained_value_marked(node, c.info.node_id)]
                     ELSE search' = asked /\ UNCHANGED node
    /\ UNCHANGED <<peers, lookup, sstpVars, lockVars, callVars>>

\* A plausible bug: next returns None as soon as a candidate has failed.
FindValueIter_next_none_on_failure ==
    /\ search.pc = "running"
    /\ ~next_goes_on(search) \/ search.failed # NoId
    /\ search' = [search EXCEPT !.pc = "ready"]
    /\ UNCHANGED <<node, peers, lookup, sstpVars, lockVars, callVars>>

\* The loop of next ends: next returns None
FindValueIter_next_none ==
    /\ search.pc = "running"
    /\ ~next_goes_on(search)
    /\ search' = [search EXCEPT !.pc = "ready"]
    /\ UNCHANGED <<node, peers, lookup, sstpVars, lockVars, callVars>>

(***************************************************************************)
(* Request dispatch: process_request_message and Node::process_request.    *)
(* A message is a sequence of bytes.                                       *)
(***************************************************************************)
\* Option<T>
None == <<>>
Some(x) == <<x>>

NETWORK_MESSAGE_TYPE_PING_REQUEST == 1
NETWORK_MESSAGE_TYPE_FIND_NODE_REQUEST == 2
NETWORK_MESSAGE_TYPE_FIND_VALUE_REQUEST == 4

\* The flag of a request for an actor network, and the length of an actor id
ACTOR_FLAG == 128
ActorIdLen == 32

\* u8 addition
u8_add(a, b) == (a + b) % 256

\* A plausible bug: the flag is left in the type.
flag_kept(message_type_id) == message_type_id

\* message_type_id ^= 0x80
flag_flipped(message_type_id) ==
    IF (message_type_id \div ACTOR_FLAG) % 2 = 1
    THEN message_type_id - ACTOR_FLAG
    ELSE message_type_id + ACTOR_FLAG

\* Node::process_request: the node's own handler of the message type answers,
\* with result; None when the node has no handler for the type
Node_process_request(nd, message_type, result) ==
    IF message_type = NETWORK_MESSAGE_TYPE_PING_REQUEST
    THEN Some(Some(<<nd.node_id>>))
    ELSE IF message_type \in {NETWORK_MESSAGE_TYPE_FIND_NODE_REQUEST,
                              NETWORK_MESSAGE_TYPE_FIND_VALUE_REQUEST}
         THEN Some(result)
         ELSE None

\* Node::mark_node_helpful and Node::mark_node_problematic: the node afterwards
helpful_marked(nd, node_info) ==
    LET index == Node_differs_at_bit(nd.node_id, node_info.node_id)
    IN [nd EXCEPT !.buckets = WithBucket(@, index,
           Bucket_mark_helpful(BucketAt(@, index), node_info, nd.bucket_size))]

problematic_marked(nd, node_id) ==
    LET index == Node_differs_at_bit(nd.node_id, node_id)
    IN [nd EXCEPT !.buckets = WithBucket(@, index,
           Bucket_mark_problematic(BucketAt(@, index), node_id))]

\* process_request_message for the message buffer, received from their_node_info
\* by a node that serves the actor networks actor_nodes. result is what the
\* handler the request goes to gives (the node's own for a request it parses,
\* OverlayNode::process_request with ownership_taken, or process_actor_request)
\* and responded whether the response could be sent.
process_request_message(buffer, their_node_info, actor_nodes, result, ownership_taken, responded) ==
    LET input == [op |-> "process_request_message", buffer |-> buffer,
                  their_node_info |-> their_node_info, actor_nodes |-> actor_nodes]
        panic == [input EXCEPT !.op = "panic"]
        done(handler, actor_id, message_type, request, response, marked,
             marked_at, returned) ==
            [op |-> "done", buffer |-> buffer, their_node_info |-> their_node_info,
             actor_nodes |-> actor_nodes, handler |-> handler,
             actor_id |-> actor_id, message_type |-> message_type,
             request |-> request, respond |-> response, marked |-> marked,
             marked_at |-> marked_at, returned |-> returned]
        \* interface.respond(connection, message_type_id + 1, &response)
        respond(message_type_id, response) ==
            IF response = None THEN None
            ELSE Some([message_type |-> u8_add(message_type_id, 1),
                       message |-> response[1]])
        mark(response) ==
            IF response = None THEN "none"
            ELSE IF responded THEN "helpful" ELSE "problematic"
    IN IF Len(buffer) = 0
       THEN call' = panic /\ UNCHANGED <<sstpVars, nodeVars, lockVars>>
       ELSE IF buffer[1] >= ACTOR_FLAG
       THEN IF Len(buffer) < 1 + ActorIdLen
            THEN call' = panic /\ UNCHANGED <<sstpVars, nodeVars, lockVars>>
            ELSE LET message_type_id == flag_flipped(buffer[1])
                     actor_id == SubSeq(buffer, 2, 1 + ActorIdLen)
                     served == actor_id \in actor_nodes
                 IN /\ call' = done(
                            IF served THEN "actor" ELSE "none",
                            actor_id,
                            message_type_id,
                            SubSeq(buffer, 2 + ActorIdLen, Len(buffer)),
                            IF served THEN respond(message_type_id, result) ELSE None,
                            IF served THEN mark(result) ELSE "none",
                            IF served THEN "actor" ELSE "none",
                            FALSE)
                    /\ UNCHANGED <<sstpVars, nodeVars, lockVars>>
       ELSE LET message_type_id == buffer[1]
                own == Node_process_request(node, message_type_id, result)
                r == IF own # None THEN own[1] ELSE result
            IN /\ call' = done(
                       IF own # None THEN "node" ELSE "overlay",
                       None,
                       message_type_id,
                       Tail(buffer),
                       respond(message_type_id, r),
                       mark(r),
                       IF r = None THEN "none" ELSE "overlay",
                       IF own # None THEN FALSE ELSE ownership_taken)
               /\ node' = IF r = None THEN node
                          ELSE IF responded
                               THEN helpful_marked(node, their_node_info)
                               ELSE problematic_marked(node, their_node_info.node_id)
               /\ UNCHANGED <<sstpVars, peers, lookup, search, lockVars>>

(***************************************************************************)
(* The locks of a server: Server.sessions, the lock of the session table,  *)
(* and the lock of every session entry. A handler is the sequence of its   *)
(* lock operations and of the link sends it awaits.                        *)
(***************************************************************************)
Op(name, s) == <<name, s>>
lock_sessions == Op("lock_sessions", NoId)
unlock_sessions == Op("unlock_sessions", NoId)
lock_session(s) == Op("lock_session", s)
unlock_session(s) == Op("unlock_session", s)
send == Op("send", NoId)

\* The session entries of the table, and the orders a loop over the map may
\* visit them in: a HashMap's, here forwards or backwards.
Entries == 0..(MaxAllocs - 1)
Orders == {[i \in 1..MaxAllocs |-> i - 1], [i \in 1..MaxAllocs |-> MaxAllocs - i]}

\* for (id, session_mutex) in map.iter() { session_mutex.lock().await ... }:
\* every entry in turn is locked and released again.
lock_every_session(order) ==
    [i \in 1..(2 * Len(order)) |->
        IF i % 2 = 1 THEN lock_session(order[(i + 1) \div 2])
        ELSE unlock_session(order[i \div 2])]

\* clean_sessions: the table lock is held from the first line to the last.
clean_sessions_locks(order) ==
    <<lock_sessions>> \o lock_every_session(order) \o <<unlock_sessions>>

\* process_crypted_packet for a packet of session s: the entry is locked under
\* the table lock; on a relay session the packet is sent on, and the send awaited,
\* before the entry's guard goes out of scope.
process_crypted_packet_locks(s, kind) ==
    <<lock_sessions, lock_session(s)>>
        \o (IF kind = "Relay" THEN <<send>> ELSE <<>>)
        \o <<unlock_session(s), unlock_sessions>>

\* A plausible bug: the entry is locked first and the table under it.
process_hello_ack_packet_locks_nested(s) ==
    <<lock_session(s), lock_sessions, unlock_sessions, unlock_session(s)>>

\* process_hello_ack_packet: the entry is cloned out of the table in a block of
\* its own, then locked in a second block.
process_hello_ack_packet_locks(s) ==
    <<lock_sessions, unlock_sessions, lock_session(s), unlock_session(s)>>

\* process_hello_packet and process_relayed_hello_packet, through
\* _process_hello_packet: new_incomming_session runs find_their_session under the
\* table lock; the entry is locked again for the activity or the handle, and the
\* HELLO_ACK sent after that.
process_hello_packet_locks(s, order) ==
    <<lock_sessions>> \o lock_every_session(order)
        \o <<unlock_sessions, lock_session(s), unlock_session(s), send>>

\* connect_with_timeout and relay_with_timeout: new_outgoing_session, the HELLO,
\* and the entry locked for the transporter handle.
connect_with_timeout_locks(s) ==
    <<lock_sessions, unlock_sessions, send, lock_session(s), unlock_session(s)>>

\* process_relay_hello_packet: new_relay_session, then the RELAYED_HELLO.
process_relay_hello_packet_locks ==
    <<lock_sessions, unlock_sessions, send>>

\* process_relayed_hello_ack_packet: table block, entry block, then the send.
process_relayed_hello_ack_packet_locks(s) ==
    <<lock_sessions, unlock_sessions, lock_session(s), unlock_session(s), send>>

\* process_relay_hello_ack_packet: table block, entry block.
process_relay_hello_ack_packet_locks(s) ==
    <<lock_sessions, unlock_sessions, lock_session(s), unlock_session(s)>>

\* set_next_session_id
set_next_session_id_locks == <<lock_sessions, unlock_sessions>>

\* The tasks a server runs: the cleaner, the callers and a handler per packet.
Handlers ==
    {clean_sessions_locks(o) : o \in Orders}
    \cup {process_crypted_packet_locks(s, k) : s \in Entries, k \in {"Direct", "Relay"}}
    \cup {process_hello_ack_packet_locks(s) : s \in Entries}
    \cup {process_hello_packet_locks(s, o) : s \in Entries, o \in Orders}
    \cup {connect_with_timeout_locks(s) : s \in Entries}
    \cup {process_relay_hello_packet_locks, set_next_session_id_locks}
    \cup {process_relayed_hello_ack_packet_locks(s) : s \in Entries}
    \cup {process_relay_hello_ack_packet_locks(s) : s \in Entries}

NoTask == [script |-> <<>>, pc |-> 0]
NoTasks == [t \in 1..MaxTasks |-> NoTask]

\* What a task has done: the first pc operations of its script.
Done(task) == SubSeq(task.script, 1, task.pc)

Count(ops, op) == Cardinality({i \in 1..Len(ops) : ops[i] = op})

\* A tokio Mutex guard is held from lock().await until it is dropped.
HoldsSessions(task) ==
    Count(Done(task), lock_sessions) > Count(Done(task), unlock_sessions)
HeldEntries(task) ==
    {s \in Entries :
        Count(Done(task), lock_session(s)) > Count(Done(task), unlock_session(s))}

\* The operation a running task is at.
Running(task) == task.pc < Len(task.script)
NextOp(task) == task.script[task.pc + 1]

\* A task at lock().await waits while another task holds the lock.
Blocked(t) ==
    /\ Running(tasks[t])
    /\ \E u \in DOMAIN tasks \ {t} :
           \/ NextOp(tasks[t]) = lock_sessions /\ HoldsSessions(tasks[u])
           \/ \E s \in HeldEntries(tasks[u]) : NextOp(tasks[t]) = lock_session(s)

\* A task is spawned, in the first free place of the task table: the garbage
\* collector's pass, a caller, or the handler process_packet runs for a packet.
spawn_task(t, script) ==
    /\ ~Running(tasks[t])
    /\ \A u \in 1..(t - 1) : Running(tasks[u])
    /\ tasks' = [tasks EXCEPT ![t] = [script |-> script, pc |-> 0]]
    /\ UNCHANGED <<sstpVars, nodeVars, callVars>>

\* A task does its next operation: it gets the lock it waits for, drops a guard,
\* or its send completes. With its last operation the task ends.
task_step(t) ==
    /\ Running(tasks[t])
    /\ ~Blocked(t)
    /\ tasks' = [tasks EXCEPT ![t] =
           IF @.pc + 1 = Len(@.script) THEN NoTask ELSE [@ EXCEPT !.pc = @ + 1]]
    /\ UNCHANGED <<sstpVars, nodeVars, callVars>>

NextLocks ==
    \/ \E t \in DOMAIN tasks, script \in Handlers : spawn_task(t, script)
    \/ \E t \in DOMAIN tasks : task_step(t)

(***************************************************************************)
(* The servers: Server::bind, and every operation.                         *)
(***************************************************************************)
SstpInit ==
    /\ tasks = NoTasks
    /\ call = NoCall
    /\ sessions = [h \in Hosts |-> <<>>]
    /\ next_id = [h \in Hosts |-> 0]
    /\ allocated = {}
    /\ cleaned = {}
    /\ keys = 0
    /\ net = [hello |-> {}, hello_ack |-> {}, relay_hello |-> {}, relayed_hello |-> {},
              crypted |-> {}]
    /\ connects = <<>>
    /\ handlers = {}
    /\ transporters = {}
    /\ replies = {}

\* Node::new: no finger is known yet
NewNode(node_id, bucket_size) ==
    [node_id |-> node_id, bucket_size |-> bucket_size, openness |-> "Bidirectional",
     buckets |-> [b \in Buckets |-> <<>>]]

NodeInit ==
    /\ node = NewNode(0, MaxFingers)
    /\ peers = <<>>
    /\ lookup = NoLookup
    /\ search = NoSearch

Init == SstpInit /\ NodeInit

\* The operations of the servers, grouped by the part they belong to.
Connect ==
    \/ \E h \in Initiators, target \in Hosts :
          /\ target # h
          /\ \E expected \in {NoNode, server_node_id(target)} :
                connect_with_timeout(h, target, expected, DEFAULT_TIMEOUT)
          /\ UNCHANGED <<nodeVars, lockVars, callVars>>
    \/ \E i \in 1..Len(connects) : connect_send(i) /\ UNCHANGED <<nodeVars, lockVars, callVars>>
    \/ \E i \in 1..Len(connects) : connect_give_up(i) /\ UNCHANGED <<nodeVars, lockVars, callVars>>

Relay ==
    \/ \E h \in Initiators, relay \in Hosts :
          /\ relay # h
          /\ relay_with_timeout(h, relay, "C", server_node_id("C"), DEFAULT_TIMEOUT)
          /\ UNCHANGED <<nodeVars, lockVars, callVars>>
    \/ \E h \in Hosts, p \in net.relay_hello :
          process_relay_hello_packet(h, p) /\ UNCHANGED <<nodeVars, lockVars, callVars>>

Accept ==
    \/ \E h \in Hosts, p \in net.hello :
          process_hello_packet(h, p) /\ UNCHANGED <<nodeVars, lockVars, callVars>>
    \/ \E hd \in handlers : process_hello_packet_reply(hd) /\ UNCHANGED <<nodeVars, lockVars, callVars>>

Acknowledge ==
    \/ \E h \in Hosts, p \in net.hello_ack :
          process_hello_ack_packet(h, p) /\ UNCHANGED <<nodeVars, lockVars, callVars>>
    \/ \E i \in 1..Len(connects) : connect_receive(i) /\ UNCHANGED <<nodeVars, lockVars, callVars>>

Transport ==
    \/ \E t \in transporters : transporter_send(t) /\ UNCHANGED <<nodeVars, lockVars, callVars>>
    \/ \E t \in transporters : close_connection(t) /\ UNCHANGED <<nodeVars, lockVars, callVars>>
    \/ \E h \in Hosts, p \in net.crypted :
          process_crypted_packet(h, p) /\ UNCHANGED <<nodeVars, lockVars, callVars>>

CleanSessions == \E h \in DOMAIN sessions : clean_sessions(h) /\ UNCHANGED <<nodeVars, lockVars, callVars>>

Clean ==
    \/ CleanSessions
    \/ Tick /\ UNCHANGED <<nodeVars, lockVars, callVars>>

SetNextSessionId ==
    \E h \in Hosts, id \in SeedIds : set_next_session_id(h, id) /\ UNCHANGED <<nodeVars, lockVars, callVars>>

SetStopFlag == \E i \in 1..Len(connects) : set_stop_flag(i) /\ UNCHANGED <<nodeVars, lockVars, callVars>>

\* Every operation of the servers.
Next ==
    \/ Connect
    \/ Relay
    \/ Accept
    \/ Acknowledge
    \/ Transport
    \/ Clean
    \/ SetNextSessionId
    \/ SetStopFlag

Spec == Init /\ [][Next]_vars

\* The session table: the operations that register and remove sessions.
NextSessions ==
    \/ Connect
    \/ Relay
    \/ Accept
    \/ Clean
    \/ SetNextSessionId

SpecSessions == Init /\ [][NextSessions]_vars

\* The handshake between an initiator and a responder.
NextHandshake ==
    \/ Connect
    \/ Accept
    \/ Acknowledge
    \/ Clean
    \/ SetNextSessionId

SpecHandshake == Init /\ [][NextHandshake]_vars

\* The session cleaner at work on direct and relay sessions that carry packets.
\* spawn_garbage_collector runs clean_sessions again and again until the server
\* stops, so the passes of every server are weakly fair.
NextCleaner ==
    \/ Connect
    \/ Relay
    \/ Accept
    \/ Transport
    \/ Clean

SpecCleaner ==
    /\ Init
    /\ [][NextCleaner]_vars
    /\ \A h \in Hosts : WF_vars(clean_sessions(h) /\ UNCHANGED <<nodeVars, lockVars, callVars>>)

(***************************************************************************)
(* The node: its lookups under any answers, its lookups among honest       *)
(* peers, its value searches and its buckets.                              *)
(***************************************************************************)
\* The ids looked up: the last id of the finger pool and the first one outside it
LookupTargets == {PoolSize - 1, PoolSize}

\* find_node_from_fingers is called with any fingers and gets any answers. Every
\* connect and exchange ends (with a result or a timeout), so an iteration that
\* can run does run.
FindNodeInit ==
    /\ SstpInit
    /\ node \in {NewNode(0, k) : k \in {1, MaxFingers}}
    /\ peers = <<>>
    /\ lookup = NoLookup
    /\ search = NoSearch

NextFindNode ==
    \/ \E id \in LookupTargets, fingers \in FingerLists(FingerPool, MaxFingers),
          result_limit \in {1, MaxFingers}, visit_limit \in {1, MaxVisit} :
          find_node_from_fingers(id, fingers, result_limit, visit_limit)
    \/ find_node_skip
    \/ \E outcome \in Outcomes : find_node_dial(outcome)

\* An iteration of the loop of find_node_from_fingers
find_node_iteration ==
    \/ find_node_skip
    \/ \E outcome \in Outcomes : find_node_dial(outcome)

SpecFindNode ==
    /\ FindNodeInit
    /\ [][NextFindNode]_vars
    /\ WF_vars(find_node_iteration)

\* find_node is called at a node among honest peers. Every peer was told of
\* every other peer; the node itself of every other peer or of a single one. The
\* buckets are small or hold whatever they are told.
NetworkInit ==
    /\ SstpInit
    /\ \E owner \in {0, 5}, bucket_size \in {MaxFingers, 2^IdBits} :
          \E known \in {Ids \ {owner}} \cup {{n} : n \in Ids \ {owner}} :
              /\ node = [NewNode(owner, bucket_size) EXCEPT
                            !.buckets = buckets_of(owner, known, bucket_size)]
              /\ peers = [n \in Ids \ {owner} |->
                              buckets_of(n, Ids \ {n}, bucket_size)]
    /\ lookup = NoLookup
    /\ search = NoSearch

NextNetwork ==
    \/ \E id \in Ids, result_limit \in 1..ScenarioResultLimit,
          hop_limit \in {1, ScenarioVisitLimit} :
          find_node(id, result_limit, hop_limit)
    \/ find_node_skip
    \/ find_node_dial(HonestOutcome)

SpecNetwork == NetworkInit /\ [][NextNetwork]_vars

\* A FindValueIter is made with any fingers and verifier, and gets any answers.
NextFindValue ==
    \/ \E id \in LookupTargets, fingers \in FingerLists(FingerPool, MaxFingers),
          visit_limit \in 1..MaxVisit, narrow_down \in BOOLEAN,
          use_relays \in BOOLEAN, accepts \in {{"v1"}} :
          find_value_from_fingers_iter(id, fingers, visit_limit, narrow_down,
                                       use_relays, accepts)
    \/ FindValueIter_next
    \/ FindValueIter_next_skip
    \/ \E outcome \in ValueOutcomes : FindValueIter_next_dial(outcome)
    \/ FindValueIter_next_none

SpecFindValue == Init /\ [][NextFindValue]_vars

\* A FindValueIter that uses relays is made by a node of any bucket size, with
\* fingers that may be more than a bucket holds.
NextNarrowDown ==
    \/ \E id \in LookupTargets, fingers \in FingerLists(FingerPool, MaxFingers + 1),
          narrow_down \in BOOLEAN :
          find_value_from_fingers_iter(id, fingers, MaxVisit, narrow_down, TRUE,
                                       {"v1"})
    \/ FindValueIter_next
    \/ FindValueIter_next_skip
    \/ \E outcome \in ValueOutcomes : FindValueIter_next_dial(outcome)
    \/ FindValueIter_next_none

SpecNarrowDown == FindNodeInit /\ [][NextNarrowDown]_vars

\* A FindValueIter that may visit one candidate or more than its seeds, and is
\* called again after every value and every None.
NextResume ==
    \/ \E id \in LookupTargets, fingers \in FingerLists(FingerPool, MaxFingers),
          visit_limit \in {1, MaxVisit + 1} :
          find_value_from_fingers_iter(id, fingers, visit_limit, FALSE, TRUE,
                                       {"v1"})
    \/ FindValueIter_next
    \/ FindValueIter_next_skip
    \/ \E outcome \in ValueOutcomes : FindValueIter_next_dial(outcome)
    \/ FindValueIter_next_none

SpecResume == Init /\ [][NextResume]_vars

\* The node marks and rejects any finger, its own id included.
BucketsInit ==
    /\ SstpInit
    /\ node \in {NewNode(owner, k) : owner \in PoolIds, k \in 1..MaxFingers}
    /\ peers = <<>>
    /\ lookup = NoLookup
    /\ search = NoSearch

NextBuckets ==
    \/ \E node_info \in FingerPool : mark_node_helpful(node_info)
    \/ \E n \in PoolIds : mark_node_problematic(n)
    \/ \E n \in PoolIds : reject_node(n)
    \/ \E n \in PoolIds : mark_obtained_value(n)

SpecBuckets == BucketsInit /\ [][NextBuckets]_vars

\* The node connects to any finger and exchanges with it, with any outcome.
Results == {Ok} \cup {Err(e) : e \in Errors}

NextQuality ==
    \/ \E result \in Results, n \in PoolIds \cup {NoId} : Node_connect(result, n)
    \/ \E result \in Results, node_info \in FingerPool :
          handle_connection_issue(result, node_info)

SpecQuality == BucketsInit /\ [][NextQuality]_vars

\* The node receives any message from a peer: of any type, for the overlay or
\* for an actor network it serves or does not serve, whole or cut short.
MessageTypes == {1, 2, 3, 127, 129, 130, 255}
ActorIds == {[i \in 1..ActorIdLen |-> a] : a \in {7, 8}}
Payloads == {<<>>, <<9>>}
Messages ==
    {<<>>} \cup {<<t>> \o p : t \in MessageTypes, p \in Payloads}
           \cup {<<t>> \o a \o p : t \in MessageTypes, a \in ActorIds, p \in Payloads}
           \cup {<<t>> \o SubSeq(a, 2, ActorIdLen) : t \in {2, 130}, a \in ActorIds}
Responses8 == {None, Some(<<5>>)}

NextDispatch ==
    \E buffer \in Messages, actor_nodes \in {{}, {[i \in 1..ActorIdLen |-> 7]}},
       result \in Responses8, ownership_taken \in BOOLEAN, responded \in BOOLEAN :
        process_request_message(buffer, NodeContactInfo(1, 1, "Bidirectional"),
                                actor_nodes, result, ownership_taken, responded)

SpecDispatch == Init /\ [][NextDispatch]_vars

(***************************************************************************)
(* FIND_VALUE framing: process_find_value_request and                      *)
(* process_find_value_response. A buffer is a sequence of bytes.           *)
(***************************************************************************)
\* The serialized form of a finger: its node id, its contact option and its
\* openness, a byte each
FingerBytes == 3

OpennessOfRank(r) ==
    CASE r = 0 -> "Bidirectional" [] r = 1 -> "Punchable" [] OTHER -> "Unidirectional"

serialize_finger(f) == <<f.node_id, f.contact, OpennessRank(f.openness)>>

RECURSIVE serialize_fingers(_)
serialize_fingers(fingers) ==
    IF fingers = <<>> THEN <<>>
    ELSE serialize_finger(Head(fingers)) \o serialize_fingers(Tail(fingers))

\* FindNodeResponse { is_super_node, connection, fingers } as the requests build it
WireResponse(is_super_node, connection, fingers) ==
    [is_super_node |-> is_super_node, connection |-> connection, fingers |-> fingers]

\* bincode::serialize of a FindNodeResponse: the flag, the optional connection
\* behind its tag, and the fingers behind their number
serialize(response) ==
    <<IF response.is_super_node THEN 1 ELSE 0>>
        \o (IF response.connection = None THEN <<0>>
            ELSE <<1>> \o serialize_finger(response.connection[1]))
        \o <<Len(response.fingers)>> \o serialize_fingers(response.fingers)

\* The finger serialized at position at of the buffer
deserialize_finger(buffer, at) ==
    NodeContactInfo(buffer[at], buffer[at + 1], OpennessOfRank(buffer[at + 2]))

finger_at(buffer, at) == Len(buffer) >= at + 2 /\ buffer[at + 2] \in 0..2

\* bincode::deserialize_with_trailing of a FindNodeResponse: the response at the
\* beginning of the buffer, whatever follows it, or an error
deserialize_with_trailing(buffer) ==
    LET tagged == Len(buffer) >= 2 /\ buffer[1] \in {0, 1} /\ buffer[2] \in {0, 1}
        connected == buffer[2] = 1
        counted_at == IF connected THEN 3 + FingerBytes ELSE 3
        count == buffer[counted_at]
        sound == /\ tagged
                 /\ connected => finger_at(buffer, 3)
                 /\ Len(buffer) >= counted_at
                 /\ \A k \in 1..count :
                        finger_at(buffer, counted_at + 1 + (k - 1) * FingerBytes)
    IN IF sound
       THEN [ok |-> TRUE, error |-> "none",
             value |-> WireResponse(buffer[1] = 1,
                           IF connected THEN Some(deserialize_finger(buffer, 3))
                           ELSE None,
                           [k \in 1..count |->
                               deserialize_finger(buffer,
                                   counted_at + 1 + (k - 1) * FingerBytes)])]
       ELSE [ok |-> FALSE, error |-> "MalformedMessage", value |-> None]

\* bincode::serialized_size
serialized_size(response) == Len(serialize(response))

\* response[from..].to_vec()
slice_from(buffer, from) == SubSeq(buffer, from + 1, Len(buffer))

\* Node::reject_node: the node afterwards
rejected_node(nd, node_id) ==
    LET index == Node_differs_at_bit(nd.node_id, node_id)
    IN [nd EXCEPT !.buckets = WithBucket(@, index,
           Bucket_reject(BucketAt(@, index), node_id))]

\* Node::handle_connection_issue: the node afterwards
connection_issue_handled(nd, result, node_info) ==
    IF ~result.ok
    THEN IF result.error = "Timeout"
         THEN problematic_marked(nd, node_info.node_id)
         ELSE IF ~forgivable(result.error)
              THEN rejected_node(nd, node_info.node_id)
              ELSE nd
    ELSE helpful_marked(nd, node_info)

\* What interface.find_value gives the serving node: the request does not parse,
\* the actor is not served, the database fails, or the value or none
NoAnswers ==
    {[kind |-> k, value |-> None] : k \in {"malformed", "unknown_actor", "db_error"}}
Found(value_result) == [kind |-> "ok", value |-> value_result]

\* let force_including_fingers = actor_id.is_none()
force_including_fingers(actor_id) == actor_id = None

\* Node::process_find_value_request by a node whose find_nearest_contacts gives
\* (connection, fingers): what it returns
find_value_response(actor_id, found, is_super_node, connection, fingers) ==
    LET response == WireResponse(is_super_node, connection, fingers)
        value_result == found.value
    IN IF found.kind # "ok" THEN None
       ELSE IF force_including_fingers(actor_id)
       THEN Some(serialize(response)
                     \o (IF value_result = None THEN <<>> ELSE value_result[1]))
       ELSE IF value_result # None
       THEN Some(<<1>> \o value_result[1])
       ELSE Some(<<0>> \o serialize(response))

process_find_value_request(actor_id, found, is_super_node, connection, fingers) ==
    /\ call' = [op |-> "process_find_value_request", actor_id |-> actor_id,
                found |-> found,
                response |-> WireResponse(is_super_node, connection, fingers),
                returned |-> find_value_response(actor_id, found, is_super_node,
                                                 connection, fingers)]
    /\ UNCHANGED <<sstpVars, nodeVars, lockVars>>

\* Node::process_find_value_response: the parsed contacts, what it returns
\* ("panic" when it indexes past the end of the response) and the node afterwards
find_value_parsed(nd, node_info, response, expect_fingers_in_response) ==
    LET result == deserialize_with_trailing(response)
        issue == Err("MalformedMessage")
    IN IF expect_fingers_in_response
       THEN IF ~result.ok
            THEN [returned |-> None,
                  node |-> connection_issue_handled(nd, result, node_info)]
            ELSE LET contacts == result.value
                     contacts_len == serialized_size(contacts)
                     marked == connection_issue_handled(nd, result, node_info)
                 IN IF Len(response) = contacts_len
                    THEN [returned |-> Some(<<None, Some(contacts)>>), node |-> marked]
                    ELSE [returned |->
                              Some(<<Some(slice_from(response, contacts_len)),
                                     Some(contacts)>>),
                          node |-> marked]
       ELSE IF Len(response) = 0
            THEN [returned |-> "panic", node |-> nd]
            ELSE IF response[1] = 1
            THEN [returned |-> Some(<<Some(slice_from(response, 1)), None>>),
                  node |-> nd]
            ELSE IF response[1] = 0
            THEN [returned |-> Some(<<None, None>>), node |-> nd]
            ELSE [returned |-> None,
                  node |-> connection_issue_handled(nd, issue, node_info)]

\* The response the serving node returned, as it was sent or with another first
\* byte, is parsed by the node that asked
process_find_value_response(node_info, first, expect_fingers_in_response) ==
    /\ call.op = "process_find_value_request"
    /\ call.returned # None
    /\ LET sent == call.returned[1]
           response == IF first = None THEN sent
                       ELSE <<first[1]>> \o Tail(sent)
           parsed == find_value_parsed(node, node_info, response,
                                       expect_fingers_in_response)
       IN /\ call' = [op |-> "process_find_value_response", request |-> call,
                      response |-> response, as_sent |-> response = sent,
                      expect_fingers_in_response |-> expect_fingers_in_response,
                      returned |-> parsed.returned]
          /\ node' = parsed.node
    /\ UNCHANGED <<sstpVars, peers, lookup, search, lockVars>>

\* The value is there or not, empty or not; the serving node knows up to two
\* fingers and may hold a connection; the present byte may come as another.
ValueResults == {None, Some(<<>>), Some(<<7>>), Some(<<0, 1>>)}
ServedFingers ==
    {<<>>, <<NodeContactInfo(1, 1, "Bidirectional")>>,
     <<NodeContactInfo(1, 1, "Bidirectional"),
       NodeContactInfo(2, 2, "Unidirectional")>>}
ServedConnections == {None, Some(NodeContactInfo(3, 3, "Punchable"))}
FirstBytes == {None, Some(2)}

NextFraming ==
    \/ \E actor_id \in {None, Some(7)},
          found \in NoAnswers \cup {Found(v) : v \in ValueResults},
          is_super_node \in BOOLEAN, connection \in ServedConnections,
          fingers \in ServedFingers :
          process_find_value_request(actor_id, found, is_super_node, connection,
                                     fingers)
    \/ \E first \in FirstBytes, expect_fingers_in_response \in BOOLEAN :
          process_find_value_response(NodeContactInfo(1, 1, "Bidirectional"),
                                      first, expect_fingers_in_response)

SpecFraming == Init /\ [][NextFraming]_vars

(***************************************************************************)
(* The buffers of the handshake packets: compose_hello_packet,             *)
(* new_hello_packet and new_hello_ack_packet, byte by byte.                *)
(***************************************************************************)
PACKET_TYPE_HELLO == 0
PACKET_TYPE_HELLO_ACK == 1

\* The serialized header: the public key of the node and the signature
HeaderSize == 96

\* What a byte of the serialized header and of the serialized body is written as
HeaderByte == 2
BodyByte == 3

\* vec![byte; n]
filled(byte, n) == [k \in 1..n |-> byte]

\* serialize_into(&mut buffer[from..], ..) and buffer[from..].copy_from_slice(..)
\* for the bytes written
written(buffer, from, bytes) ==
    [k \in 1..Len(buffer) |->
        IF k > from /\ k <= from + Len(bytes) THEN bytes[k - from] ELSE buffer[k]]

\* request.map(|b| b.len()).unwrap_or(0)
len_or_0(option) == IF option = None THEN 0 ELSE Len(option[1])

\* What a builder of a packet comes to: a panic of a debug assertion, or the
\* buffer and whether the request or response is in it
Panicked == [panic |-> TRUE, buffer |-> <<>>, included |-> FALSE]
Built(buffer, included) == [panic |-> FALSE, buffer |-> buffer, included |-> included]

\* Server::compose_hello_packet with a body of body_size bytes, in a build with
\* or without debug assertions
compose_hello_packet(max_len, body_size, request, debug_assertions) ==
    LET body_offset == 1 + HeaderSize
        request_offset == body_offset + body_size
        buffer == filled(PACKET_TYPE_HELLO, request_offset + len_or_0(request))
        with_body == written(buffer, body_offset, filled(BodyByte, body_size))
        request_included ==
            request # None /\ request_offset + Len(request[1]) < max_len
        with_request == IF request_included
                        THEN written(with_body, request_offset, request[1])
                        ELSE with_body
        with_header == written(with_request, 1, filled(HeaderByte, HeaderSize))
    IN IF debug_assertions
          /\ ~(request_included \/ Len(with_header) = request_offset)
       THEN Panicked
       ELSE Built(with_header, request_included)

\* Server::new_hello_packet: what it returns
hello_packet_built(max_len, body_size, request, debug_assertions) ==
    LET composed == compose_hello_packet(max_len, body_size, request,
                                         debug_assertions)
    IN IF composed.panic THEN Panicked
       ELSE IF debug_assertions /\ ~(Len(composed.buffer) <= max_len)
       THEN Panicked
       ELSE composed

\* Server::new_hello_ack_packet: what it returns
hello_ack_packet_built(max_len, body_size, response, debug_assertions) ==
    LET body_offset == 1 + HeaderSize
        response_offset == body_offset + body_size
        packet_len == response_offset + len_or_0(response)
        buffer == filled(PACKET_TYPE_HELLO_ACK, packet_len)
        with_body == written(buffer, body_offset, filled(BodyByte, body_size))
        with_response == IF response # None
                         THEN written(with_body, response_offset, response[1])
                         ELSE with_body
        with_header == written(with_response, 1, filled(HeaderByte, HeaderSize))
    IN IF debug_assertions /\ ~(packet_len <= max_len)
       THEN Panicked
       ELSE Built(with_header, response # None)

\* A handshake packet is built for a link
packet_built(op, max_len, body_size, piggybacked, debug_assertions) ==
    /\ call' = [op |-> op, max_len |-> max_len, body_size |-> body_size,
                piggybacked |-> piggybacked,
                debug_assertions |-> debug_assertions,
                returned |->
                    IF op = "new_hello_packet"
                    THEN hello_packet_built(max_len, body_size, piggybacked,
                                            debug_assertions)
                    ELSE hello_ack_packet_built(max_len, body_size, piggybacked,
                                                debug_assertions)]
    /\ UNCHANGED <<sstpVars, nodeVars, lockVars>>

\* The links take packets of a few sizes; a body, with its contact info, is of one
\* of two sizes; a request or response of up to four bytes may ride along.
MaxPacketLengths == {103, 104, 105}
BodySizes == {4, 5}
Piggybacked == {None} \cup {Some(filled(9, n)) : n \in 0..4}

new_hello_packet_called ==
    \E max_len \in MaxPacketLengths, body_size \in BodySizes,
       request \in Piggybacked, debug_assertions \in BOOLEAN :
        packet_built("new_hello_packet", max_len, body_size, request,
                     debug_assertions)

new_hello_ack_packet_called ==
    \E max_len \in MaxPacketLengths, body_size \in BodySizes,
       response \in Piggybacked, debug_assertions \in BOOLEAN :
        packet_built("new_hello_ack_packet", max_len, body_size, response,
                     debug_assertions)

NextPackets == new_hello_packet_called \/ new_hello_ack_packet_called

SpecPackets == Init /\ [][NextPackets]_vars

(***************************************************************************)
(* The request that rides on a HELLO and its response: the parts of        *)
(* _process_hello_packet, process_hello_ack_packet and connect_with_timeout *)
(* that carry them, byte by byte.                                          *)
(***************************************************************************)
\* KeyState::calculate_initial_key: the secret both sides of a Diffie-Hellman
\* exchange compute, here the product of the two private keys
calculate_initial_key(dh_private_key, their_public_key) ==
    dh_private_key * their_public_key[2]

\* decrypt(session_id, 0, 0, buffer, key): every byte is taken from a byte of the
\* key stream, so that applying it twice with the same key gives the buffer back
decrypt(session_id, buffer, key) ==
    LET stream == (key * 16 + session_id) % 256
    IN [k \in 1..Len(buffer) |-> (stream + 256 - buffer[k]) % 256]

\* What _process_hello_packet comes to for the responder
ResponderDone(panic, declined, sent, spawned, first_message) ==
    [panic |-> panic, declined |-> declined, sent |-> sent, spawned |-> spawned,
     first_message |-> first_message]

\* Server::_process_hello_packet from the DH key pair on: processed is what
\* process_first_request gives for the request, ack_sent whether the link took the
\* HELLO_ACK
hello_answered(hello, processed, is_new, dh_private_key, ack_sent, debug_assertions) ==
    LET shared_secret == calculate_initial_key(dh_private_key, hello.dh_public_key)
        declined == hello.opt_request # None /\ processed = None
        opt_response ==
            IF hello.opt_request = None THEN None
            ELSE Some(decrypt(hello.encrypt_session_id, processed[1], shared_secret))
        built == hello_ack_packet_built(hello.max_len, hello.body_size,
                                        opt_response, debug_assertions)
        sent == IF ack_sent THEN Some(built.buffer) ELSE None
    IN IF declined THEN ResponderDone(FALSE, TRUE, None, FALSE, None)
       ELSE IF built.panic THEN ResponderDone(TRUE, FALSE, None, FALSE, None)
       ELSE IF ~is_new THEN ResponderDone(FALSE, FALSE, sent, FALSE, None)
       ELSE ResponderDone(FALSE, FALSE, sent, TRUE,
                IF opt_response # None /\ ~built.included
                THEN opt_response ELSE None)

\* The HELLO of an initiator whose session is session_id is processed
first_request_processed(hello, processed, is_new, dh_private_key, ack_sent, debug_assertions) ==
    /\ call' = [op |-> "_process_hello_packet", hello |-> hello,
                processed |-> processed, is_new |-> is_new,
                dh_private_key |-> dh_private_key,
                debug_assertions |-> debug_assertions,
                returned |-> hello_answered(hello, processed, is_new,
                                            dh_private_key, ack_sent,
                                            debug_assertions)]
    /\ UNCHANGED <<sstpVars, nodeVars, lockVars>>

\* Server::process_hello_ack_packet: the response that follows the body of the
\* HELLO_ACK, if any; buffer is the packet without its type byte
hello_ack_response(buffer, body_size) ==
    LET response_offset == HeaderSize + body_size
    IN IF Len(buffer) > response_offset
       THEN Some(slice_from(buffer, response_offset))
       ELSE None

\* The select! branch of connect_with_timeout that receives the hello result:
\* the response it returns with the connection
connect_response(local_session_id, dh_private_key, their_public_key, opt_response) ==
    IF opt_response = None THEN None
    ELSE Some(decrypt(local_session_id, opt_response[1],
                      calculate_initial_key(dh_private_key, their_public_key)))

\* The HELLO_ACK the responder sent arrives, and connect_with_timeout returns
first_response_received(initiator_dh_private_key) ==
    /\ call.op = "_process_hello_packet"
    /\ call.returned.sent # None
    /\ LET packet == call.returned.sent[1]
           opt_response == hello_ack_response(Tail(packet), call.hello.body_size)
       IN call' = [op |-> "connect_with_timeout", answered |-> call,
                   returned |-> connect_response(call.hello.encrypt_session_id,
                                    initiator_dh_private_key,
                                    x25519_public(call.dh_private_key),
                                    opt_response)]
    /\ UNCHANGED <<sstpVars, nodeVars, lockVars>>

\* The initiator made its key 2 and its session 5; the responder makes any of two
\* keys; the request is there or not and the processor answers it with up to three
\* bytes or declines; the link takes packets of 103 or 104 bytes.
InitiatorKey == 2
Hellos ==
    {[dh_public_key |-> x25519_public(InitiatorKey), encrypt_session_id |-> 5,
      opt_request |-> request, max_len |-> max_len, body_size |-> 4] :
        request \in {None, Some(<<1>>)}, max_len \in {103, 104}}
Processed == {None} \cup {Some(filled(9, n)) : n \in 0..3}

NextPiggyback ==
    \/ \E hello \in Hellos, processed \in Processed, is_new \in BOOLEAN,
          dh_private_key \in {3, 4}, ack_sent \in BOOLEAN,
          debug_assertions \in BOOLEAN :
          first_request_processed(hello, processed, is_new, dh_private_key,
                                  ack_sent, debug_assertions)
    \/ first_response_received(InitiatorKey)

SpecPiggyback == Init /\ [][NextPiggyback]_vars

(***************************************************************************)
(* HELLOs with a request, as they arrive: parse_hello_packet,              *)
(* process_hello_packet and the two halves of _process_hello_packet.       *)
(***************************************************************************)
\* &buffer[body_offset..] of a HELLO: the body and the request behind it
HelloSigned(p) == <<HelloBody(p), p.request>>

\* compose_hello_packet for a request: the signature is over body and request
hello_packet_with(h, target, dh_private_key, my_session_id, request) ==
    LET body == [dh_public_key |-> x25519_public(dh_private_key),
                 session_id |-> my_session_id]
    IN [src |-> h, dst |-> target,
        node_public_key |-> public(private_key(h)),
        signature |-> sign(private_key(h), <<HelloBody(body), request>>),
        dh_public_key |-> body.dh_public_key,
        session_id |-> body.session_id,
        request |-> request]

\* The requests a HELLO may carry
Requests == {None, Some(<<1>>), Some(<<2>>)}

\* A plausible bug: the signature is checked over the body, whatever the request.
parse_hello_packet_any_request(p) ==
    IF \E request \in Requests :
           verify(p.node_public_key, <<HelloBody(p), request>>, p.signature)
    THEN "Ok"
    ELSE "InvalidSignature"

\* Server::parse_hello_packet: the signature check over body and request
parse_hello_packet(p) ==
    IF verify(p.node_public_key, HelloSigned(p), p.signature)
    THEN "Ok"
    ELSE "InvalidSignature"

\* Server::process_hello_packet for any packet of type HELLO, up to where
\* _process_hello_packet has the session and the DH key
hello_packet_received(h, p) ==
    /\ p.dst = h
    /\ IF parse_hello_packet(p) # "Ok"
       THEN /\ call' = [op |-> "process_hello_packet", host |-> h, packet |-> p,
                        returned |-> parse_hello_packet(p)]
            /\ UNCHANGED sstpVars
       ELSE /\ _process_hello_packet(h, p.src, p, p.session_id, p.session_id)
            /\ call' = [op |-> "process_hello_packet", host |-> h, packet |-> p,
                        returned |-> "Ok"]
    /\ UNCHANGED <<nodeVars, lockVars>>

\* The rest of _process_hello_packet, with what process_first_request gives for
\* the request: when it gives None the handler returns at once
hello_packet_answered(hd, processed) ==
    /\ hd \in handlers
    /\ IF hd.hello.request # None /\ processed = None
       THEN /\ handlers' = handlers \ {hd}
            /\ UNCHANGED <<sessions, next_id, allocated, cleaned, keys, net,
                           connects, transporters, replies>>
       ELSE process_hello_packet_reply(hd)
    /\ call' = [op |-> "_process_hello_packet", host |-> hd.host, handler |-> hd,
                processed |-> IF hd.hello.request = None THEN None ELSE processed,
                declined |-> hd.hello.request # None /\ processed = None,
                sessions |-> sessions'[hd.host], net |-> net',
                transporters |-> transporters']
    /\ UNCHANGED <<nodeVars, lockVars>>

\* The HELLOs that reach the responder: those a peer composed, with a request
\* or without, and copies of them with the request or the DH key
\* replaced, or under the public key of another
ComposedHellos ==
    {hello_packet_with(h, "B", dh, session_id, request) :
        h \in {"A"}, dh \in {1}, session_id \in {0, 1},
        request \in {None, Some(<<1>>)}}
CraftedHellos ==
    ComposedHellos
        \cup {[p EXCEPT !.request = Some(<<2>>)] : p \in ComposedHellos}
        \cup {[p EXCEPT !.dh_public_key = x25519_public(0)] : p \in ComposedHellos}
        \cup {[p EXCEPT !.node_public_key = public(private_key("C"))] :
                 p \in ComposedHellos}

NextRequests ==
    \/ \E p \in CraftedHellos : hello_packet_received("B", p)
    \/ \E hd \in handlers, processed \in {None, Some(<<5>>)} :
          hello_packet_answered(hd, processed)

SpecRequests == Init /\ [][NextRequests]_vars

\* Copies of one HELLO handled at the same time: the handlers that may be at work
\* between the session lookup and the reply
MaxCopies == 2

\* Server::process_hello_packet while other handlers are at work
hello_copy_received(h, p) ==
    /\ p.dst = h
    /\ parse_hello_packet(p) = "Ok"
    /\ _process_hello_packet_among(MaxCopies, h, p.src, p, p.session_id, p.session_id)
    /\ UNCHANGED <<nodeVars, lockVars, callVars>>

NextCopies ==
    \/ \E p \in ComposedHellos : hello_copy_received("B", p)
    \/ \E hd \in handlers :
          process_hello_packet_reply(hd) /\ UNCHANGED <<nodeVars, lockVars, callVars>>

SpecCopies == Init /\ [][NextCopies]_vars

\* Every finger in the buckets of the node nd
known_fingers(nd) ==
    UNION {{nd.buckets[b][k].info : k \in 1..Len(nd.buckets[b])} : b \in Buckets}

\* Node::find_nearest_fingers is called for id, with the fingers known then
find_nearest_fingers_called(id) ==
    /\ call' = [op |-> "find_nearest_fingers", id |-> id,
                bucket_size |-> node.bucket_size,
                known |-> known_fingers(node),
                fingers |-> find_nearest_fingers(node, id)]
    /\ UNCHANGED <<sstpVars, nodeVars, lockVars>>

\* The node gets to know fingers, forgets some, and is asked for the fingers
\* nearest any id.
NextNearest ==
    \/ \E node_info \in FingerPool : mark_node_helpful(node_info)
    \/ \E n \in PoolIds : reject_node(n)
    \/ \E id \in Ids : find_nearest_fingers_called(id)

SpecNearest == FindNodeInit /\ [][NextNearest]_vars

\* A lookup under any answers, with a record of the fingers it has seen (those it
\* was seeded with and those of the responses) and of the candidates it has
\* merged into its queues.
find_node_from_fingers_seen(id, fingers, result_limit, visit_limit) ==
    /\ find_node_from_fingers_step(id, fingers, result_limit, visit_limit)
    /\ call' = [op |-> "find_node_from_fingers",
                seen |-> {fingers[k] : k \in 1..Len(fingers)},
                merged |-> lookup'.candidates]

find_node_skip_seen == find_node_skip_step /\ UNCHANGED callVars

find_node_dial_seen(outcome) ==
    /\ find_node_dial_step(outcome)
    /\ LET received == outcome.response.fingers \o outcome.response.connection
       IN call' = IF outcome.kind # "response" THEN call
                  ELSE [call EXCEPT
                           !.seen = @ \cup {received[k] : k \in 1..Len(received)},
                           !.merged = @ \o new_fingers_of(lookup, node, outcome)]

\* What the candidates of such a lookup answer: nothing, or any fingers
SeenOutcomes ==
    {NoResponse} \cup {Responded(FindNodeResponse(Ascending(S), <<>>)) :
                          S \in {T \in SUBSET FingerPool : Cardinality(T) <= MaxFingers}}

NextBestFound ==
    \/ \E id \in LookupTargets, fingers \in FingerLists(FingerPool, MaxFingers),
          result_limit \in {1, MaxFingers} :
          find_node_from_fingers_seen(id, fingers, result_limit, MaxVisit)
    \/ find_node_skip_seen
    \/ \E outcome \in SeenOutcomes : find_node_dial_seen(outcome)

SpecBestFound == FindNodeInit /\ [][NextBestFound]_vars

\* A lookup that is fed with fingers of different nodes, and gets any answers.
DistinctFingerLists ==
    {fingers \in FingerLists(FingerPool, MaxFingers) :
        \A j, k \in 1..Len(fingers) :
            j # k => fingers[j].node_id # fingers[k].node_id}

NextDistinct ==
    \/ \E id \in LookupTargets, fingers \in DistinctFingerLists,
          result_limit \in {1, MaxFingers + 1}, visit_limit \in {1, MaxVisit} :
          find_node_from_fingers(id, fingers, result_limit, visit_limit)
    \/ find_node_skip
    \/ \E outcome \in Outcomes : find_node_dial(outcome)

SpecDistinct == FindNodeInit /\ [][NextDistinct]_vars

\* A node of any openness picks the strategies for any fingers it is given, of
\* any openness, when it starts a lookup or a value search from them.
StrategyFingers == {NodeContactInfo(n, n, o) : n \in 1..2, o \in Openness}

StrategyInit ==
    /\ SstpInit
    /\ node \in {[NewNode(0, MaxFingers) EXCEPT !.openness = o] : o \in Openness}
    /\ peers = <<>>
    /\ lookup = NoLookup
    /\ search = NoSearch

NextStrategy ==
    \/ \E id \in LookupTargets, fingers \in FingerLists(StrategyFingers, MaxFingers) :
          find_node_from_fingers(id, fingers, MaxFingers, MaxVisit)
    \/ \E id \in LookupTargets, fingers \in FingerLists(StrategyFingers, MaxFingers) :
          find_value_from_fingers_iter(id, fingers, MaxVisit, TRUE, TRUE, Values)

SpecStrategy == StrategyInit /\ [][NextStrategy]_vars

\* A node of any openness searches a value from any fingers and learns fingers of
\* any openness from the answers.
SpecLearned == StrategyInit /\ [][NextResume]_vars

(***************************************************************************)
(* Properties of the session table, the handshake and the cleaner.         *)
(***************************************************************************)
\* C1: every id new_outgoing_session, new_incomming_session and new_relay_session
\* register a session under is a 16-bit id that was absent from the session map
\* just before, so that no live session is replaced and no two live sessions share
\* a local id, also when the counter wraps around.
C1_SessionIdsUnique ==
    [][/\ \A x \in allocated' \ allocated :
             /\ x.id \in 0..(U16 - 1)
             /\ x.id \notin DOMAIN sessions[x.host]
       /\ \A h \in Hosts : \A s \in DOMAIN sessions[h] \cap DOMAIN sessions'[h] :
             sessions'[h][s].uid = sessions[h][s].uid]_vars

\* The counter of a host was at 0xFFFF with that id taken, and the next session
\* went to id 0: both sessions are live.
C1_WrappedAround ==
    \E h \in Hosts :
        /\ {U16 - 1, 0} \subseteq DOMAIN sessions[h]
        /\ sessions[h][U16 - 1].uid < sessions[h][0].uid

\* C2: a HELLO whose (peer node id, peer session id) belongs to a session of the
\* map is answered from that session: is_new is false, the id is the existing
\* one, and no session is added.
C2_KnownHelloReusesSession ==
    [][\A hd \in handlers' \ handlers :
          LET map == sessions[hd.host]
              known == {s \in DOMAIN map :
                          /\ map[s].kind = "Direct"
                          /\ map[s].their_node_id = hd.their_node_id
                          /\ map[s].dest_session_id = hd.dest_session_id}
          IN known # {} =>
                /\ ~hd.is_new
                /\ hd.our_session_id \in known
                /\ sessions'[hd.host] = map
                /\ allocated' = allocated]_vars

\* A handler works on a HELLO of a session that was in the map already.
C2_ReplayHandled == \E hd \in handlers : ~hd.is_new

\* C3: a HELLO answered twice from the same session gets the same HELLO_ACK: the
\* same session ids and the same responder DH public key.
C3_SameAckOnReplay ==
    \A r1, r2 \in replies :
        (r1.hello = r2.hello /\ r1.host = r2.host /\ r1.uid = r2.uid)
            => r1.ack = r2.ack

\* C4: a transporter addresses and encrypts with the id its peer registered the
\* session under: the initiator's with the id of the session the responder created
\* for the initiator's session, the responder's with the initiator's local id.
C4_EncryptionDirection ==
    \A t \in transporters :
        /\ t.encrypt_session_id = t.dest_session_id
        /\ IF t.role = "accept"
           THEN \E x \in allocated :
                    /\ x.host = t.peer
                    /\ x.dir = "out"
                    /\ x.id = t.dest_session_id
           ELSE \E x \in allocated :
                    /\ x.host = t.peer
                    /\ x.dir = "in"
                    /\ x.id = t.dest_session_id
                    /\ x.their_node_id = server_node_id(t.host)
                    /\ x.dest_session_id = t.local_session_id

\* Both ends of a handshake have their transporter, and the two local ids differ.
C4_BothTransporters ==
    \E ta \in transporters, tb \in transporters :
        /\ ta.role = "connect"
        /\ tb.role = "accept"
        /\ tb.host = ta.peer
        /\ ta.dest_session_id = tb.local_session_id
        /\ tb.dest_session_id = ta.local_session_id
        /\ ta.local_session_id # tb.local_session_id

(***************************************************************************)
(* Properties of the value search, the node lookup and the buckets.        *)
(***************************************************************************)
\* The result the verifier gives for the value the last dialed peer sent
LastVerified(s) == <<Verified([node_id |-> s.last.node_id], s.last.value)>>

\* C5: FindValueIter::next returns a result only when it is what do_verify made of
\* the value bytes a dialed peer just sent; the dial that receives a value the
\* verifier accepts ends that call of next with this result, and a dial that
\* receives a value the verifier rejects (or none) returns nothing and leaves the
\* call running.
C5_ValueReturnedIffVerified ==
    /\ [](search.returned # <<>> =>
              /\ search.pc = "ready"
              /\ search.last.value \in search.accepts
              /\ search.returned = LastVerified(search))
    /\ [][search'.dials = search.dials + 1 =>
              IF search'.last.value \in search.accepts
              THEN /\ search'.pc = "ready"
                   /\ search'.returned = LastVerified(search')
              ELSE /\ search'.pc = "running"
                   /\ search'.returned = <<>>]_vars

\* next has returned a verified value from the second peer it dialed.
C5_SecondPeerAccepted ==
    /\ search.returned # <<>>
    /\ search.dials >= 2
    /\ Len(search.visited) >= 2

\* C6: find_node_from_fingers dials at most visit_limit candidates, dials no node
\* id twice, and a lookup that is in its loop comes to its end.
C6_FindNodeTerminates ==
    /\ [](Len(lookup.dialed) <= lookup.visit_limit)
    /\ [](\A j, k \in 1..Len(lookup.dialed) :
              j # k => lookup.dialed[j] # lookup.dialed[k])
    /\ (lookup.pc = "loop" ~> lookup.pc = "done")

\* The lookup has ended on its visit limit, with candidates left in the queue.
C6_StoppedByVisitLimit ==
    /\ lookup.pc = "done"
    /\ lookup.visit_limit = MaxVisit
    /\ Len(lookup.dialed) = lookup.visit_limit
    /\ Len(lookup.candidates) > 0

RECURSIVE nearest_ids(_, _, _)
nearest_ids(id, S, n) ==
    IF n = 0 \/ S = {} THEN <<>>
    ELSE LET m == CHOOSE x \in S :
                      \A y \in S : distance(id, x) <= distance(id, y)
         IN <<m>> \o nearest_ids(id, S \ {m}, n - 1)

\* The node ids find_node returned
result_ids == [k \in 1..Len(lookup.result) |-> lookup.result[k].node_id]

\* The node's buckets hold every other peer of the network.
knows_all_peers ==
    \A n \in Ids \ {node.node_id} :
        \E b \in Buckets : \E k \in 1..Len(node.buckets[b]) :
            node.buckets[b][k].info.node_id = n

\* C8 as stated: among honest peers find_node returns the result_limit ids nearest
\* the target among all peers (with the owner counted as a peer or not).
C8_ReturnsNearestOfAllPeers ==
    lookup.pc = "done" =>
        \/ result_ids = nearest_ids(lookup.id, Ids, lookup.result_limit)
        \/ result_ids = nearest_ids(lookup.id, Ids \ {node.node_id},
                                    lookup.result_limit)

\* C8, amended: among honest peers find_node returns at most result_limit ids,
\* none of them the owner's, nearest the target first. For a target that is not
\* the owner's id: with the visit limit of the scenario the first id returned is
\* the target's, and when the owner's buckets hold every other peer the ids
\* returned are the result_limit ids nearest the target among the other peers.
C8_ReturnsNearestOfKnownPeers ==
    lookup.pc = "done" =>
        /\ Len(result_ids) <= lookup.result_limit
        /\ \A k \in 1..Len(result_ids) : result_ids[k] # node.node_id
        /\ \A j, k \in 1..Len(result_ids) :
               j < k => distance(lookup.id, result_ids[j])
                            <= distance(lookup.id, result_ids[k])
        /\ (lookup.visit_limit = ScenarioVisitLimit /\ lookup.id # node.node_id) =>
               (Len(result_ids) > 0 /\ result_ids[1] = lookup.id)
        /\ (knows_all_peers /\ lookup.id # node.node_id) =>
               result_ids = nearest_ids(lookup.id, Ids \ {node.node_id},
                                        lookup.result_limit)

\* The lookup of the scenario has ended: owner 5 asked for the ids nearest 10.
C8_ScenarioDone ==
    /\ lookup.pc = "done"
    /\ node.node_id = 5
    /\ knows_all_peers
    /\ lookup.id = 10
    /\ lookup.result_limit = ScenarioResultLimit
    /\ lookup.visit_limit = ScenarioVisitLimit
    /\ Len(lookup.dialed) = ScenarioVisitLimit
    /\ Len(result_ids) = ScenarioResultLimit
    /\ result_ids = nearest_ids(10, Ids, ScenarioResultLimit)

\* C9: every entry of bucket i of the node differs from the owner's id at bit i,
\* whatever fingers the node has marked helpful, problematic or holding a value
\* and rejected, its own id among them; each such operation changes one bucket at
\* most.
C9_BucketInvariant ==
    /\ [](\A i \in Buckets : \A k \in 1..Len(node.buckets[i]) :
              differs_at_bit(node.node_id, node.buckets[i][k].info.node_id) = i)
    /\ [][Cardinality({i \in Buckets : node'.buckets[i] # node.buckets[i]}) <= 1]_vars

\* Two buckets hold entries, one marked problematic and one marked as having
\* given a value.
C9_TwoBucketsMarked ==
    \E i, j \in Buckets :
        /\ i # j
        /\ \E k \in 1..Len(node.buckets[i]) : node.buckets[i][k].problematic
        /\ \E k \in 1..Len(node.buckets[j]) : node.buckets[j][k].obtained

\* Session object uid of host h is in the map under id s and has expired.
ExpiredIn(h, s, uid) == Holds(h, s, uid) /\ Expired(sessions[h][s])

\* C10: with the cleaner running, a session that has expired leaves the map unless
\* a packet refreshes it, and a pass of the cleaner leaves no relay session behind
\* that had expired when it ran.
C10_ExpiredSessionsRemoved ==
    /\ \A h \in Hosts, s \in 0..MaxAllocs, uid \in 1..MaxAllocs :
           ExpiredIn(h, s, uid) ~> ~ExpiredIn(h, s, uid)
    /\ [][\A h \in Hosts : clean_sessions(h) =>
              \A s \in DOMAIN sessions[h] :
                  (sessions[h][s].kind = "Relay" /\ Expired(sessions[h][s]))
                      => s \notin DOMAIN sessions'[h]]_vars

\* The cleaner has removed a relay session and a direct session.
C10_BothKindsCleaned ==
    /\ \E x \in cleaned : x.kind = "Relay"
    /\ \E x \in cleaned : x.kind = "Direct"

\* The relay bridge: initiator A, relayer B and target C, each with a server of
\* its own. A also connects directly. The resend loop and the packet handlers of
\* the servers run whenever they can; the clock is under no obligation, so that
\* the deadline need never pass.
RelayInit ==
    /\ tasks = NoTasks
    /\ call = NoCall
    /\ sessions = [h \in Addrs |-> <<>>]
    /\ next_id = [h \in Addrs |-> 0]
    /\ allocated = {}
    /\ cleaned = {}
    /\ keys = 0
    /\ net = [hello |-> {}, hello_ack |-> {}, relay_hello |-> {}, relayed_hello |-> {},
              crypted |-> {}]
    /\ connects = <<>>
    /\ handlers = {}
    /\ transporters = {}
    /\ replies = {}
    /\ NodeInit

RelayedAccept ==
    \E h \in Addrs, p \in net.relayed_hello :
        process_relayed_hello_packet(h, p) /\ UNCHANGED <<nodeVars, lockVars, callVars>>

NextRelay ==
    \/ Connect
    \/ Relay
    \/ RelayedAccept
    \/ Accept
    \/ Acknowledge
    \/ Transport
    \/ Clean

SpecRelay ==
    /\ RelayInit
    /\ [][NextRelay]_vars
    /\ WF_vars(\E i \in 1..Len(connects) : connect_send(i) /\ UNCHANGED <<nodeVars, lockVars, callVars>>)
    /\ WF_vars(Relay)
    /\ WF_vars(RelayedAccept)
    /\ WF_vars(Accept)
    /\ WF_vars(Acknowledge)

\* The relayer at work: sessions opened through relayer B carry the CRYPTED
\* packets of the target's transporter and datagrams from any address.
Datagram ==
    \E src \in Initiators \cup Strangers, dst \in Addrs, session_id \in 0..(MaxAllocs - 1) :
        /\ src # dst
        /\ session_id \in DOMAIN sessions[dst]
        /\ sessions[dst][session_id].kind = "Relay"
        /\ receive_datagram(src, dst, session_id)
        /\ UNCHANGED <<nodeVars, lockVars, callVars>>

NextBridge ==
    \/ \E h \in Initiators, relay \in Hosts :
          /\ relay # h
          /\ relay_with_timeout(h, relay, "C", server_node_id("C"), DEFAULT_TIMEOUT)
          /\ UNCHANGED <<nodeVars, lockVars, callVars>>
    \/ \E i \in 1..Len(connects) : connect_send(i) /\ UNCHANGED <<nodeVars, lockVars, callVars>>
    \/ \E h \in Hosts, p \in net.relay_hello :
          process_relay_hello_packet(h, p) /\ UNCHANGED <<nodeVars, lockVars, callVars>>
    \/ RelayedAccept
    \/ \E hd \in handlers : process_hello_packet_reply(hd) /\ UNCHANGED <<nodeVars, lockVars, callVars>>
    \/ Transport
    \/ Datagram

SpecBridge == RelayInit /\ [][NextBridge]_vars

(***************************************************************************)
(* Relayer: process_relayed_hello_ack_packet, the one place where a relay  *)
(* session gets the session id of its target.                              *)
(***************************************************************************)
PACKET_TYPE_RELAY_HELLO == 5

\* The relay sessions, as (host, uid), that were given a target session id
Learned == IF call.op = "process_relayed_hello_ack_packet" THEN call.learned ELSE {}

\* What process_relayed_hello_ack_packet comes to for packet p at host h, check
\* by check
process_relayed_hello_ack_packet_result(h, p) ==
    IF ~verify(p.node_public_key, HelloAckBody(p), p.signature)
    THEN "InvalidSignature"
    ELSE IF p.relay_session_id \notin DOMAIN sessions[h] THEN "InvalidSessionId"
    ELSE LET session == sessions[h][p.relay_session_id]
         IN IF session.their_node_id # generate_address(p.node_public_key)
            THEN "InvalidNodeId"
            ELSE IF session.kind # "Relay" THEN "panic"
            ELSE IF session.target_addr # p.src THEN "Ok"
            ELSE IF session.source_session_id # p.source_session_id
            THEN "InvalidSessionId"
            ELSE "Sent"

\* process_relayed_hello_ack_packet: the session id of the target is stored and
\* the packet sent on to the source
process_relayed_hello_ack_packet(h, p) ==
    LET result == process_relayed_hello_ack_packet_result(h, p)
        session == sessions[h][p.relay_session_id]
    IN /\ p.dst = h
       /\ IF result = "Sent"
          THEN /\ sessions' = [sessions EXCEPT ![h][p.relay_session_id].target_session_id =
                                  p.server_session_id]
               /\ call' = [op |-> "process_relayed_hello_ack_packet",
                           returned |-> "Ok",
                           learned |-> Learned \cup {[host |-> h, uid |-> session.uid]},
                           sent |-> <<[type |-> PACKET_TYPE_RELAY_HELLO,
                                       dst |-> session.source_addr,
                                       relayer_session_id |-> p.relay_session_id,
                                       packet |-> p]>>]
          ELSE /\ UNCHANGED sessions
               /\ call' = [op |-> "process_relayed_hello_ack_packet",
                           returned |-> result, learned |-> Learned, sent |-> <<>>]
       /\ UNCHANGED <<next_id, allocated, cleaned, keys, net, connects, handlers,
                      transporters, replies, nodeVars, lockVars>>

\* The RELAYED_HELLO_ACK packets that may reach relayer B: signed by the target or
\* by the source, from the address of the target or of a stranger
RelayedHelloAcks ==
    {[src |-> src, dst |-> "B",
      node_public_key |-> public(private_key(signer)),
      signature |-> sign(private_key(signer),
                         <<x25519_public(0), source_session_id, server_session_id>>),
      dh_public_key |-> x25519_public(0),
      source_session_id |-> source_session_id,
      server_session_id |-> server_session_id,
      relay_session_id |-> relay_session_id] :
        src \in {"C", "D"}, signer \in {"A", "C"}, source_session_id \in {0},
        server_session_id \in {0, 1}, relay_session_id \in {0}}

\* The relayer between the source and a target, with the target's handshake reply
\* arriving at any time or never.
NextLearning ==
    \/ NextBridge
    \/ \E p \in RelayedHelloAcks : process_relayed_hello_ack_packet("B", p)

SpecLearning == RelayInit /\ [][NextLearning]_vars

\* The handshake of an initiator that may expect any node id, right or wrong,
\* with HELLO_ACKs altered on their way.
NextExpected ==
    \/ \E h \in Initiators, target \in Hosts, e \in Addrs :
          /\ target # h
          /\ e # h
          /\ connect_with_timeout(h, target, server_node_id(e), DEFAULT_TIMEOUT)
          /\ UNCHANGED <<nodeVars, lockVars, callVars>>
    \/ \E h \in Initiators, target \in Hosts :
          /\ target # h
          /\ connect_with_timeout(h, target, NoNode, DEFAULT_TIMEOUT)
          /\ UNCHANGED <<nodeVars, lockVars, callVars>>
    \/ \E i \in 1..Len(connects) : connect_send(i) /\ UNCHANGED <<nodeVars, lockVars, callVars>>
    \/ Accept
    \/ \E p \in net.hello_ack : \E q \in Altered(p) :
          receive_altered_hello_ack(p, q) /\ UNCHANGED <<nodeVars, lockVars, callVars>>
    \/ Acknowledge

SpecExpected == Init /\ [][NextExpected]_vars

\* A connect call from its first HELLO to its return, with a caller that may
\* set the stop flag and a clock that may pass the deadline.
NextConnect ==
    \/ Connect
    \/ Accept
    \/ Acknowledge
    \/ SetStopFlag
    \/ Tick /\ UNCHANGED <<nodeVars, lockVars, callVars>>

SpecConnect == Init /\ [][NextConnect]_vars

\* A server whose session table is nearly full: all ids but a few are taken by
\* sessions of earlier connections, and the counter stands anywhere near them.
FreePool == {0, 1, U16 - 1}
CounterPool == {0, 1, 2}

ExhaustionInit ==
    /\ \E free \in SUBSET FreePool, nid \in CounterPool :
          /\ sessions = [h \in Hosts |->
                 IF h \in Initiators
                 THEN [s \in (0..(U16 - 1)) \ free |->
                          DirectSession(NoNode, NoId, NoId, FALSE, NoNode, default_timeout, 0)]
                 ELSE <<>>]
          /\ next_id = [h \in Hosts |-> IF h \in Initiators THEN nid ELSE 0]
    /\ allocated = {}
    /\ cleaned = {}
    /\ keys = 0
    /\ net = [hello |-> {}, hello_ack |-> {}, relay_hello |-> {}, relayed_hello |-> {},
              crypted |-> {}]
    /\ connects = <<>>
    /\ handlers = {}
    /\ transporters = {}
    /\ replies = {}
    /\ tasks = NoTasks
    /\ call = NoCall
    /\ NodeInit

NextExhaustion ==
    \/ \E h \in Initiators, target \in Hosts :
          /\ target # h
          /\ \E expected \in {NoNode, server_node_id(target)} :
                connect_with_timeout(h, target, expected, DEFAULT_TIMEOUT)
          /\ UNCHANGED <<nodeVars, lockVars, callVars>>
    \/ \E i \in 1..Len(connects) : connect_send(i) /\ UNCHANGED <<nodeVars, lockVars, callVars>>
    \/ SetStopFlag

SpecExhaustion == ExhaustionInit /\ [][NextExhaustion]_vars

\* The tasks of one server at their locks.
SpecLocks == Init /\ [][NextLocks]_vars

\* The two iterators of a node, one at a time: a lookup or a value search.
NextIterators ==
    \/ search.pc = "none" /\ NextFindNode
    \/ lookup.pc = "idle" /\ NextFindValue

SpecIterators == Init /\ [][NextIterators]_vars

(***************************************************************************)
(* Properties of the contact strategies, the relay bridge and the errors.  *)
(***************************************************************************)
\* The candidates a lookup or a value search has just been started with
seeded_candidates ==
    IF lookup.pc = "idle" /\ lookup'.pc # "idle" THEN lookup'.candidates
    ELSE IF search.pc = "none" /\ search'.pc = "ready" THEN search'.candidates
    ELSE <<>>

RelayCalls == {i \in 1..Len(connects) : connects[i].kind = "relay"}

\* C12: a relay handshake started by relay_with_timeout completes: with the
\* packets delivered and handled, the call returns a connection unless its
\* deadline has passed.
C12_RelayHandshakeCompletes ==
    (\E i \in RelayCalls : connects[i].pc = "loop")
        ~> (\E i \in RelayCalls :
               \/ connects[i].pc = "connected"
               \/ connects[i].elapsed >= connects[i].timeout)

\* What process_crypted_packet is to send on for packet p, handled by host h under
\* session `session`: p with the session id replaced, towards the other end.
Bridged(h, session, p) ==
    IF session.kind # "Relay" THEN {}
    ELSE IF p.src = session.source_addr
    THEN {[src |-> h, dst |-> session.target_addr,
           session_id |-> session.target_session_id, data |-> p.data]}
    ELSE IF p.src = session.target_addr
    THEN {[src |-> h, dst |-> session.source_addr,
           session_id |-> session.source_session_id, data |-> p.data]}
    ELSE {}

ExpectedOf(h, p) ==
    IF sessions[h][p.source_session_id].their_node_id # NoNode
    THEN sessions[h][p.source_session_id].their_node_id
    ELSE generate_address(p.node_public_key)

\* HELLO_ACK p for a session of host h carries the key of the node expected and a
\* signature of that key over its body.
Genuine(h, p) ==
    /\ generate_address(p.node_public_key) = ExpectedOf(h, p)
    /\ verify(p.node_public_key, HelloAckBody(p), p.signature)

\* C14: a connect that was given an expected node id never returns a connection
\* to a different node id; a HELLO_ACK whose public key hashes to another address
\* than the expected one is rejected with InvalidNodeId, one whose signature does
\* not verify with InvalidSignature, and neither completes the pending handshake:
\* the hello channel of a session is only ever used up by a genuine HELLO_ACK.
C14_ExpectedNodeIdChecked ==
    /\ [](\A i \in 1..Len(connects), t \in transporters :
              (/\ connects[i].pc = "connected"
               /\ connects[i].node_id # NoNode
               /\ t.host = connects[i].host
               /\ t.uid = connects[i].uid) => t.their_node_id = connects[i].node_id)
    /\ [](\A h \in Hosts, p \in net.hello_ack :
              (p.dst = h /\ p.source_session_id \in DOMAIN sessions[h]) =>
                  /\ generate_address(p.node_public_key) # ExpectedOf(h, p) =>
                         process_hello_ack_packet_result(h, p) = "InvalidNodeId"
                  /\ (/\ generate_address(p.node_public_key) = ExpectedOf(h, p)
                      /\ ~verify(p.node_public_key, HelloAckBody(p), p.signature)) =>
                         process_hello_ack_packet_result(h, p) = "InvalidSignature")
    /\ [][\A h \in Hosts : \A s \in DOMAIN sessions[h] :
              (/\ sessions[h][s].hello_channel
               /\ s \in DOMAIN sessions'[h]
               /\ ~sessions'[h][s].hello_channel) =>
                  \E p \in net.hello_ack :
                      /\ p.dst = h /\ p.source_session_id = s
                      /\ Genuine(h, p)
                      /\ \A i \in Waiting(h, sessions[h][s].uid) :
                             connects'[i].hello_result = <<HelloResult(ExpectedOf(h, p), p)>>]_vars

\* The initiator expected the responder's node id and is connected, while a
\* HELLO_ACK under another key and one with a broken signature were turned down.
C14_ForgeriesTurnedDown ==
    /\ \E i \in 1..Len(connects) :
           connects[i].pc = "connected" /\ connects[i].node_id # NoNode
    /\ \E p \in net.hello_ack :
           /\ p.source_session_id \in DOMAIN sessions[p.dst]
           /\ process_hello_ack_packet_result(p.dst, p) = "InvalidNodeId"
    /\ \E p \in net.hello_ack :
           /\ p.source_session_id \in DOMAIN sessions[p.dst]
           /\ process_hello_ack_packet_result(p.dst, p) = "InvalidSignature"

\* C15: connect_with_timeout resends its HELLO while neither a HELLO_ACK for its
\* session has arrived nor the deadline elapsed nor the stop flag been set; it
\* returns a connection only after a HELLO_ACK for its local session was
\* accepted, Timeout only when the deadline has elapsed and the stop flag is not
\* set, and ConnectionClosed when the stop flag was set.
C15_ConnectOutcomes ==
    [][\A i \in 1..Len(connects) :
          LET c == connects[i]
              d == connects'[i]
          IN (c.kind = "connect" /\ c.pc = "loop") =>
                /\ d.pc = "connected" =>
                       \E p \in net.hello_ack :
                           /\ p.dst = c.host
                           /\ p.source_session_id = c.local_session_id
                           /\ verify(p.node_public_key, HelloAckBody(p), p.signature)
                           /\ c.hello_result =
                                  <<HelloResult(generate_address(p.node_public_key), p)>>
                /\ d.pc = "Timeout" => (c.elapsed >= c.timeout /\ ~c.stop)
                /\ d.pc = "ConnectionClosed" => c.stop
                /\ d.pc \in {"loop", "connected", "Timeout", "ConnectionClosed",
                              "InvalidNodeId"}
                /\ (c.stop \/ c.elapsed >= c.timeout) => net'.hello = net.hello
                /\ net'.hello # net.hello => net'.hello = net.hello \cup {c.packet}]_vars

\* The caller set the stop flag, the deadline elapsed as well, and the call
\* returned ConnectionClosed after its HELLO had been answered.
C15_StoppedAfterDeadline ==
    \E i \in 1..Len(connects) :
        /\ connects[i].kind = "connect"
        /\ connects[i].pc = "ConnectionClosed"
        /\ connects[i].elapsed >= connects[i].timeout
        /\ connects[i].packet \in net.hello
        /\ \E p \in net.hello_ack : p.source_session_id = connects[i].local_session_id

\* C16: a session id is refused (OutOfSessions) only when the 16-bit id space is
\* exhausted: while one of the 65536 ids is not in the session map, a call that
\* asks for a new session gets one, wherever the counter stands.
C16_RefusedOnlyWhenExhausted ==
    [][\A i \in 1..Len(connects') :
          (i > Len(connects) /\ connects'[i].pc = "OutOfSessions") =>
              DOMAIN sessions[connects'[i].host] = 0..(U16 - 1)]_vars

\* C17: no task takes the lock of the session table while it holds the lock of a
\* session entry, and the tasks never wait for each other in a circle: whenever
\* tasks are running, one of them is not waiting for a lock.
C17_TableLockBeforeEntryLock ==
    /\ [][\A t \in DOMAIN tasks :
              (~HoldsSessions(tasks[t]) /\ HoldsSessions(tasks'[t])) =>
                  HeldEntries(tasks[t]) = {}]_vars
    /\ []((\E t \in DOMAIN tasks : Running(tasks[t])) =>
              \E t \in DOMAIN tasks : Running(tasks[t]) /\ ~Blocked(t))

\* The cleaner holds the table lock and waits for the lock of an entry that a
\* packet handler holds outside the table lock.
C17_CleanerWaitsForHandler ==
    \E t, u \in DOMAIN tasks :
        /\ HoldsSessions(tasks[t])
        /\ Blocked(t)
        /\ ~HoldsSessions(tasks[u])
        /\ \E s \in HeldEntries(tasks[u]) : NextOp(tasks[t]) = lock_session(s)

\* C18: no task awaits a link send while it holds the lock of a session entry.
C18_NoSendUnderSessionLock ==
    \A t \in DOMAIN tasks :
        (Running(tasks[t]) /\ NextOp(tasks[t]) = send) => HeldEntries(tasks[t]) = {}

\* C19: a candidate that cannot be connected, or that gives no usable answer,
\* does not end the search. In find_node_from_fingers the failed candidate costs
\* a visit and nothing else, and the loop goes on while candidates are queued
\* and the visit limit is not reached; in FindValueIter::next the failed
\* candidate is dropped and the call stays in its loop. Either search ends only
\* with its queue empty, its visit limit reached, or what it looked for found.
C19_FailedCandidateSkipped ==
    /\ [][(\E o \in {Unreachable, NoResponse} : find_node_dial(o)) =>
              /\ lookup'.found = lookup.found
              /\ lookup'.candidates = lookup.candidates
              /\ lookup'.i = lookup.i + 1
              /\ lookup'.pc = IF lookup'.i < lookup.visit_limit THEN "loop" ELSE "done"]_vars
    /\ [][(lookup.pc = "loop" /\ lookup'.pc = "done") =>
              \/ Len(lookup'.candidates) = 0
              \/ lookup'.i >= lookup.visit_limit
              \/ \E k \in 1..Len(lookup'.found) :
                     lookup'.found[k].info.node_id = lookup.id]_vars
    /\ [][(\E o \in {ValueUnreachable, ValueNoResponse} : FindValueIter_next_dial(o)) =>
              /\ search'.pc = "running"
              /\ search'.returned = <<>>
              /\ search'.candidates = Tail(search.candidates)]_vars
    /\ [][(search.pc = "running" /\ search'.pc = "ready") =>
              \/ search'.returned # <<>>
              \/ ~next_goes_on(search)]_vars

\* The first candidate of a value search failed, and the second one, dialed
\* next, sent the value.
C19_SecondCandidateAfterFailure ==
    /\ search.returned # <<>>
    /\ search.failed # NoId
    /\ search.dials = 2
    /\ search.last.node_id # search.failed

\* Node n has an entry in the buckets of the node nd
Known(nd, n) ==
    \E i \in Buckets : \E k \in 1..Len(nd.buckets[i]) :
        nd.buckets[i][k].info.node_id = n

\* Node n has an entry marked problematic in the buckets of the node nd
Problematic(nd, n) ==
    \E i \in Buckets : \E k \in 1..Len(nd.buckets[i]) :
        /\ nd.buckets[i][k].info.node_id = n
        /\ nd.buckets[i][k].problematic

\* An interaction with peer n, connecting to it or exchanging with it, fails
\* with error e
fails_with(e, n) ==
    \/ Node_connect(Err(e), n)
    \/ \E node_info \in FingerPool :
          node_info.node_id = n /\ handle_connection_issue(Err(e), node_info)

\* C20: peer quality follows the error taxonomy. A Timeout marks the peer
\* problematic and leaves it in its bucket; a protocol violation removes the peer
\* from the buckets, while connecting as well as while exchanging; a successful
\* exchange makes the peer known and not problematic; every error gives None to
\* the caller.
C20_QualityFollowsTaxonomy ==
    [][\A n \in PoolIds \ {node.node_id} :
          /\ fails_with("Timeout", n) =>
                /\ Known(node', n) = Known(node, n)
                /\ Known(node, n) => Problematic(node', n)
          /\ \A e \in Violations : fails_with(e, n) => ~Known(node', n)
          /\ \A node_info \in FingerPool :
                node_info.node_id = n /\ handle_connection_issue(Ok, node_info) =>
                    Known(node', n) /\ ~Problematic(node', n)
          /\ \A e \in Errors : returned_option(Err(e)) = "None"]_vars

(***************************************************************************)
(* Properties of the request dispatch, the signatures and the searches.    *)
(***************************************************************************)
\* The first byte of a message with its top bit cleared
top_bit_cleared(byte) == byte % ACTOR_FLAG

\* C21: the first byte of a message is its type. With its top bit set, the next
\* 32 bytes name an actor: the rest of the message goes to that actor as a request
\* of the type with the top bit cleared, and a node that does not serve the actor
\* sends no response. Without it the request is handled by the node or the
\* overlay node. Every response carries the type of the request plus one.
C21_RequestDispatch ==
    call.op = "done" =>
        LET first == call.buffer[1]
        IN /\ call.message_type = top_bit_cleared(first)
           /\ first >= ACTOR_FLAG =>
                 /\ call.actor_id = [i \in 1..ActorIdLen |-> call.buffer[i + 1]]
                 /\ call.request = [i \in 1..(Len(call.buffer) - ActorIdLen - 1) |->
                                       call.buffer[i + ActorIdLen + 1]]
                 /\ call.handler = IF call.actor_id \in call.actor_nodes
                                   THEN "actor" ELSE "none"
                 /\ call.actor_id \notin call.actor_nodes => call.respond = None
           /\ first < ACTOR_FLAG =>
                 /\ call.handler \in {"node", "overlay"}
                 /\ call.request = Tail(call.buffer)
           /\ call.respond # None =>
                 call.respond[1].message_type = top_bit_cleared(first) + 1

\* A FIND_NODE request for an actor network the node serves was answered.
C21_ActorRequestAnswered ==
    /\ call.op = "done"
    /\ call.buffer[1] = ACTOR_FLAG + NETWORK_MESSAGE_TYPE_FIND_NODE_REQUEST
    /\ call.handler = "actor"
    /\ call.respond # None
    /\ call.respond[1].message_type = NETWORK_MESSAGE_TYPE_FIND_NODE_REQUEST + 1

\* The queue is in ascending order of distance
Ascends(queue) ==
    \A j, k \in 1..Len(queue) : j < k => queue[j].dist <= queue[k].dist

\* How often entry e is in the queue
Times(queue, e) == Cardinality({k \in 1..Len(queue) : queue[k] = e})

\* The entries of the queue at distance d, in their order
AtDistance(queue, d) ==
    LET at(e) == e.dist = d IN SelectSeq(queue, at)

\* p is the beginning of q
IsPrefix(p, q) == Len(p) <= Len(q) /\ p = SubSeq(q, 1, Len(p))

\* The entries newly in the queue after are nearer than d, and those that were in
\* the queue before still come first among the entries of their distance
MergedNearer(before, after, d) ==
    /\ \A k \in 1..Len(after) :
           Times(after, after[k]) > Times(before, after[k]) => after[k].dist < d
    /\ \A k \in 1..Len(after) :
           LET old == AtDistance(before, after[k].dist)
               new == AtDistance(after, after[k].dist)
           IN IsPrefix(old, new) \/ IsPrefix(new, old)

\* C23: in a lookup, the fingers of a response are merged into the candidate
\* queue and into the best found only when they are strictly nearer the target
\* than the candidate that sent them; both queues are always in ascending order
\* of distance, and a merged entry comes after the entries of its distance that
\* were there before.
C23_OnlyNearerFingersMerged ==
    /\ [](Ascends(lookup.candidates) /\ Ascends(lookup.found))
    /\ [][lookup'.dialed # lookup.dialed =>
              LET d == Head(lookup.candidates).dist
              IN /\ MergedNearer(lookup.candidates, lookup'.candidates, d)
                 /\ MergedNearer(lookup.found, lookup'.found, d)]_vars

\* The second candidate dialed named the first one at another address: the best
\* found hold both, the one that was there first before the other.
C23_MergedAfterEqualDistance ==
    /\ Len(lookup.dialed) = 2
    /\ Len(lookup.found) = 2
    /\ lookup.found[1].dist = lookup.found[2].dist
    /\ lookup.found[1] # lookup.found[2]
    /\ lookup.found[1].info.node_id = lookup.dialed[1]
    /\ lookup.found[1].info.contact = lookup.visited[1][2]

\* The smaller of two numbers
Min(a, b) == IF a <= b THEN a ELSE b

\* The lookup has returned at most result_limit fingers, nearest the target first
ReturnedInOrder ==
    /\ Len(lookup.result) <= lookup.result_limit
    /\ \A j, k \in 1..Len(lookup.result) :
           j < k => distance(lookup.id, lookup.result[j].node_id)
                        <= distance(lookup.id, lookup.result[k].node_id)

\* C24 as stated: the lookup returns at most result_limit fingers, nearest the
\* target first, and they are the result_limit nearest of all the fingers it was
\* seeded with or received in a response (the owner itself aside).
C24_ReturnsNearestOfAllSeen ==
    (lookup.pc = "done" /\ call.op = "find_node_from_fingers") =>
        LET returned == {lookup.result[k] : k \in 1..Len(lookup.result)}
            others == {f \in call.seen : f.node_id # node.node_id}
        IN /\ ReturnedInOrder
           /\ returned \subseteq others
           /\ \A f \in others \ returned :
                  /\ Len(lookup.result) = lookup.result_limit
                  /\ \A r \in returned : distance(lookup.id, r.node_id)
                                             <= distance(lookup.id, f.node_id)

\* C24, amended: the lookup returns at most result_limit fingers, nearest the
\* target first, and they are the result_limit nearest of the candidates it has
\* merged: the fingers it was seeded with, the owner aside, and of the fingers of
\* each response those that are not the owner, are directly reachable, are at a
\* contact option not visited and are strictly nearer the target than the
\* candidate that sent them.
C24_ReturnsNearestOfMerged ==
    (lookup.pc = "done" /\ call.op = "find_node_from_fingers") =>
        /\ ReturnedInOrder
        /\ lookup.result = infos(lookup.found)
        /\ Len(lookup.found) = Min(lookup.result_limit, Len(call.merged))
        /\ \A k \in 1..Len(lookup.found) :
               Times(lookup.found, lookup.found[k])
                   <= Times(call.merged, lookup.found[k])
        /\ \A k \in 1..Len(call.merged) :
               Times(call.merged, call.merged[k])
                      > Times(lookup.found, call.merged[k]) =>
                   \A j \in 1..Len(lookup.found) :
                       lookup.found[j].dist <= call.merged[k].dist

\* A lookup has ended that received a finger it did not merge, nearer the target
\* than a finger it returned.
C24_NearerFingerLeftOut ==
    /\ lookup.pc = "done"
    /\ call.op = "find_node_from_fingers"
    /\ Len(lookup.result) = lookup.result_limit
    /\ \E f \in call.seen :
           /\ f.node_id # node.node_id
           /\ \A k \in 1..Len(call.merged) : call.merged[k].info # f
           /\ \E k \in 1..Len(lookup.result) :
                  distance(lookup.id, f.node_id)
                      < distance(lookup.id, lookup.result[k].node_id)

\* C25: find_nearest_fingers(id) returns at most bucket_size of the known
\* fingers, none for the owner's own id, and no known finger it leaves out is
\* nearer to id than one it returns: it returns every known finger when fewer
\* than bucket_size are known.
C25_NearestFingersReturned ==
    call.op = "find_nearest_fingers" =>
        LET returned == {call.fingers[k] : k \in 1..Len(call.fingers)}
        IN /\ Len(call.fingers) <= call.bucket_size
           /\ returned \subseteq call.known
           /\ call.id = node.node_id => call.fingers = <<>>
           /\ call.id # node.node_id =>
                 /\ Len(call.fingers) = Min(call.bucket_size, Cardinality(call.known))
                 /\ \A f \in call.known \ returned : \A r \in returned :
                        distance(call.id, r.node_id) <= distance(call.id, f.node_id)

\* The value search is in its loop with a candidate at the front that needs a
\* relay, while relays are not used
RelayCandidateBarred ==
    /\ search.pc = "running"
    /\ next_goes_on(search)
    /\ Head(search.candidates).method = "Relay"
    /\ ~search.use_relays

\* C26: without use_relays the value search dials no candidate whose strategy is
\* Relay: the iteration that meets one takes it from the queue without a dial, so
\* without a connection or a request and without a result.
C26_NoRelayDialedUnlessUsed ==
    /\ [][search'.dials # search.dials =>
              (Head(search.candidates).method = "Relay" => search.use_relays)]_vars
    /\ [][(RelayCandidateBarred /\ search' # search) =>
              /\ search'.candidates = Tail(search.candidates)
              /\ search'.dials = search.dials
              /\ search'.last = search.last
              /\ search'.returned = <<>>
              /\ search'.pc = "running"
              /\ node' = node]_vars

\* A candidate that needs a relay, named in a response, was taken from the queue
\* without a dial: it is the last on the visited list, and the last dial was of
\* another node.
C26_RelayCandidateSkipped ==
    /\ search.pc = "running"
    /\ ~search.use_relays
    /\ search.dials = 1
    /\ Len(search.visited) = 2
    /\ search.visited[2][1] # search.last.node_id
    /\ search.visited[2][1] # node.node_id
\* A dial of the front candidate that got a response
Answered(outcome) == outcome.kind = "response" /\ FindValueIter_next_dial(outcome)

\* The entries newly in the queue after are nearer than d
AddedNearer(before, after, d) ==
    \A k \in 1..Len(after) :
        Times(after, after[k]) > Times(before, after[k]) => after[k].dist < d

\* C27: with narrow_down, after every response the candidate queue holds at most
\* bucket_size entries, and every finger the response added is strictly nearer the
\* searched id than the candidate that sent it.
C27_QueueCappedAfterEveryResponse ==
    [][\A outcome \in ValueOutcomes :
           (search.narrow_down /\ Answered(outcome)) =>
               /\ Len(search'.candidates) <= node.bucket_size
               /\ AddedNearer(Tail(search.candidates), search'.candidates,
                              Head(search.candidates).dist)]_vars

\* C27, amended: with narrow_down, after every response that carries a
\* FindNodeResponse the candidate queue holds at most bucket_size entries, and
\* every finger the response added is strictly nearer the searched id than the
\* candidate that sent it; a response that carries none leaves the rest of the
\* queue as it was, whatever its length. Without narrow_down every finger
\* extracted from the response is in the queue afterwards and no entry is dropped.
C27_QueueCappedAfterFingers ==
    [][\A outcome \in ValueOutcomes :
           Answered(outcome) =>
               LET rest == Tail(search.candidates)
                   d == Head(search.candidates).dist
                   extracted ==
                       IF outcome.possible_contacts = <<>> THEN <<>>
                       ELSE extract_fingers_from_response(search.id,
                                outcome.possible_contacts[1], search'.visited)
               IN IF outcome.possible_contacts = <<>>
                  THEN search'.candidates = rest
                  ELSE IF search.narrow_down
                  THEN /\ Len(search'.candidates) <= node.bucket_size
                       /\ AddedNearer(rest, search'.candidates, d)
                  ELSE /\ Len(search'.candidates) = Len(rest) + Len(extracted)
                       /\ \A k \in 1..Len(extracted) :
                              Times(search'.candidates, extracted[k])
                                  >= Times(rest, extracted[k]) + 1]_vars

\* A narrowing search that began with more fingers than a bucket holds was
\* answered, and its queue is still longer than a bucket.
C27_LongQueueAfterResponse ==
    /\ search.pc = "running"
    /\ search.narrow_down
    /\ search.dials = 1
    /\ search.failed = NoId
    /\ Len(search.candidates) > node.bucket_size
\* The response was parsed as it was sent, by a node that expects fingers exactly
\* when the serving node put them first
RoundTrip(expect_fingers) ==
    /\ call.op = "process_find_value_response"
    /\ call.as_sent
    /\ call.expect_fingers_in_response = expect_fingers
    /\ force_including_fingers(call.request.actor_id) = expect_fingers

\* C29: what process_find_value_request frames, process_find_value_response
\* parses to the same content. When fingers are expected, the node that asked
\* obtains the FindNodeResponse of the serving node, and the value exactly when
\* the serving node had it; when they are not, it obtains the value when the
\* present byte is 1 and the FindNodeResponse when it is 0, and any other present
\* byte is a MalformedMessage, for which nothing is returned and the peer is
\* rejected.
C29_FindValueFramingRoundTrips ==
    /\ RoundTrip(TRUE) =>
           call.returned =
               Some(<<call.request.found.value, Some(call.request.response)>>)
    /\ RoundTrip(FALSE) =>
           call.returned =
               IF call.request.found.value # None
               THEN Some(<<call.request.found.value, None>>)
               ELSE Some(<<None, Some(call.request.response)>>)
    /\ (/\ call.op = "process_find_value_response"
        /\ ~call.expect_fingers_in_response
        /\ call.response[1] \notin {0, 1}) => call.returned = None
\* The contact options of the visited list
VisitedContacts(s) == {s.visited[k][2] : k \in 1..Len(s.visited)}

\* C28: a call of next goes on with the candidate queue and the visited list the
\* call before left, and the visited list only grows; so in the life of an
\* iterator every dial is of a contact option that was not visited, which is then
\* put on the visited list, where no contact option is twice; the owner of the
\* node is never dialed nor visited; and the visited list never holds more than
\* visit_limit entries.
C28_IteratorResumes ==
    /\ [][(search.pc = "ready" /\ search'.pc = "running") =>
              /\ search'.candidates = search.candidates
              /\ search'.visited = search.visited
              /\ search'.dials = search.dials]_vars
    /\ [][search.pc # "none" => IsPrefix(search.visited, search'.visited)]_vars
    /\ [][search'.dials # search.dials =>
              LET c == Head(search.candidates)
              IN /\ search'.dials = search.dials + 1
                 /\ c.info.contact \notin VisitedContacts(search)
                 /\ c.info.node_id # node.node_id
                 /\ search'.visited =
                        Append(search.visited, <<c.info.node_id, c.info.contact>>)]_vars
    /\ [](/\ Cardinality(VisitedContacts(search)) = Len(search.visited)
          /\ \A k \in 1..Len(search.visited) : search.visited[k][1] # node.node_id
          /\ Len(search.visited) <= search.capacity
          /\ search.dials <= Len(search.visited))

\* The iterator returned the value its first dial obtained and was called again:
\* the call goes on with the candidates that were left and the one visited.
C28_ResumedAfterValue ==
    /\ search.pc = "running"
    /\ search.returned = <<>>
    /\ search.dials = 1
    /\ search.last.value \in search.accepts
    /\ Len(search.visited) = 1
    /\ Len(search.candidates) > 0
\* The piggybacked request or response, with header and body before it, is
\* longer than the link's packets
DoesNotFit ==
    1 + HeaderSize + call.body_size + len_or_0(call.piggybacked) > call.max_len

\* C30: a HELLO built by new_hello_packet and a HELLO_ACK built by
\* new_hello_ack_packet are never longer than max_packet_length; a request that
\* does not fit is left out of the HELLO, which is then returned with
\* request_included = false and is header and body only.
C30_HandshakePacketsFit ==
    /\ (call.op \in {"new_hello_packet", "new_hello_ack_packet"}
            /\ ~call.returned.panic) =>
           Len(call.returned.buffer) <= call.max_len
    /\ (call.op = "new_hello_packet" /\ DoesNotFit) =>
           /\ ~call.returned.panic
           /\ ~call.returned.included
           /\ Len(call.returned.buffer) = 1 + HeaderSize + call.body_size
\* The responder's processor answered the request that rode on the HELLO of a
\* session not known before
Answering(c) ==
    /\ c.op = "_process_hello_packet"
    /\ c.hello.opt_request # None
    /\ c.processed # None
    /\ c.is_new

\* The response, with the type byte, header and body before it, fits the link
ResponseFits(c) ==
    1 + HeaderSize + c.hello.body_size + Len(c.processed[1]) <= c.hello.max_len

\* C31: the response to a request that rode on a HELLO reaches the initiator once
\* and as the processor gave it: when it fits the packet, in the HELLO_ACK, which
\* connect returns decrypted, with nothing sent on the transporter; when it does
\* not, as the first message on the spawned transporter, with a HELLO_ACK that
\* carries no response.
C31_FirstResponseDeliveredOnce ==
    /\ Answering(call) =>
           /\ ~call.returned.panic
           /\ call.returned.spawned
           /\ call.returned.first_message =
                  IF ResponseFits(call) THEN None ELSE Some(call.processed[1])
           /\ call.returned.sent # None =>
                  Len(call.returned.sent[1]) <= call.hello.max_len
    /\ (call.op = "connect_with_timeout" /\ Answering(call.answered)) =>
           call.returned =
               IF ResponseFits(call.answered)
               THEN Some(call.answered.processed[1]) ELSE None
(***************************************************************************)
(* Properties of the handshake under retransmission and concurrency.       *)
(***************************************************************************)
\* The hello channel of the session connect call i made has been taken
ChannelTaken(i) ==
    LET c == connects[i]
    IN /\ c.kind = "connect"
       /\ c.local_session_id \in DOMAIN sessions[c.host]
       /\ sessions[c.host][c.local_session_id].uid = c.uid
       /\ ~sessions[c.host][c.local_session_id].hello_channel

\* The HELLO_ACKs on the links for the session of connect call i
AcksFor(i) ==
    {p \in net.hello_ack : /\ p.dst = connects[i].host
                           /\ p.source_session_id = connects[i].local_session_id}

\* The node whose HELLO_ACK the session of connect call i takes
AckSigner(i, p) ==
    IF connects[i].node_id # NoNode THEN connects[i].node_id
    ELSE generate_address(p.node_public_key)

\* A hello result that was delivered stays as it is, and no connect call has two
\* transporters
OneResult ==
    /\ [][\A i \in 1..Len(connects) :
              connects[i].hello_result # <<>> =>
                  connects'[i].hello_result = connects[i].hello_result]_vars
    /\ [](\A i \in 1..Len(connects) :
              Cardinality({t \in transporters :
                              /\ t.host = connects[i].host
                              /\ t.uid = connects[i].uid}) <= 1)

\* C32: once the hello channel of an outgoing session is taken, every HELLO_ACK for
\* that session id is treated as processed before, without an error; the result
\* that was delivered to the waiting connect is never replaced and the connect
\* spawns one transporter at most.
C32_EveryLaterAckIgnored ==
    /\ [](\A i \in 1..Len(connects) :
              ChannelTaken(i) =>
                  \A p \in AcksFor(i) :
                      process_hello_ack_packet_result(connects[i].host, p) = "Ok")
    /\ OneResult

\* C32, amended: once the hello channel of an outgoing session is taken, a
\* HELLO_ACK for that session id that passes the check of node id and signature is
\* treated as processed before, without an error, and one that does not pass is
\* rejected with InvalidNodeId or InvalidSignature, as it was before; the result
\* that was delivered is never replaced and the connect spawns one transporter at
\* most.
C32_LaterAcksGiveNoResult ==
    /\ [](\A i \in 1..Len(connects) :
              ChannelTaken(i) =>
                  \A p \in AcksFor(i) :
                      process_hello_ack_packet_result(connects[i].host, p) =
                          IF verify_hello_ack_packet_raw(AckSigner(i, p), p)
                          THEN "Ok"
                          ELSE verify_hello_ack_packet_raw_error(AckSigner(i, p), p))
    /\ OneResult

\* A connect has returned a connection made with one HELLO_ACK while another
\* HELLO_ACK of the responder for the same session, with another key, is on the
\* link.
C32_SecondAckAfterResult ==
    \E i \in 1..Len(connects) :
        /\ connects[i].pc = "connected"
        /\ ChannelTaken(i)
        /\ \E p \in AcksFor(i) :
              /\ p.dh_public_key # connects[i].hello_result[1].their_public_key
              /\ verify_hello_ack_packet_raw(AckSigner(i, p), p)
              /\ p \in {r.ack : r \in replies}
\* C33: a HELLO whose signature does not verify under the public key it carries,
\* over its body and its request, is rejected with InvalidSignature, and only
\* such a HELLO is; the rejection leaves the state of the server as it was: no
\* session entry, no handler that would invoke the message processor, no key, no
\* HELLO_ACK.
C33_ForgedHelloRejected ==
    /\ [](call.op = "process_hello_packet" =>
             (call.returned = "InvalidSignature" <=>
                  ~verify(call.packet.node_public_key,
                          <<HelloBody(call.packet), call.packet.request>>,
                          call.packet.signature)))
    /\ [][(call'.op = "process_hello_packet"
              /\ call'.returned = "InvalidSignature") => UNCHANGED sstpVars]_vars

\* A HELLO whose request was replaced after it was signed has been rejected by a
\* responder that holds a session of the same signer.
C33_ReplacedRequestRejected ==
    /\ call.op = "process_hello_packet"
    /\ call.returned = "InvalidSignature"
    /\ call.packet.request = Some(<<2>>)
    /\ verify(call.packet.node_public_key,
              <<HelloBody(call.packet), Some(<<1>>)>>, call.packet.signature)
    /\ \E id \in DOMAIN sessions[call.host] :
          sessions[call.host][id].their_node_id =
              generate_address(call.packet.node_public_key)

\* C37: when the message processor declines the request of a HELLO that opened
\* a session not known before, the responder has sent no HELLO_ACK to the sender
\* for that session, has no transporter for it, and its session table does not
\* hold the entry that was made for the HELLO.
C37_DeclinedRequestLeavesNoTrace ==
    (call.op = "_process_hello_packet" /\ call.declined /\ call.handler.is_new) =>
        /\ \A ack \in call.net.hello_ack :
              ~(ack.src = call.host /\ ack.server_session_id = call.handler.our_session_id)
        /\ \A t \in call.transporters :
              ~(t.host = call.host /\ t.uid = call.handler.uid)
        /\ call.handler.our_session_id \notin DOMAIN call.sessions

\* The responder's transporter of the session the initiator's transporter ta talks to
Counterparts(ta) ==
    {tb \in transporters :
        /\ tb.role = "accept"
        /\ tb.host = ta.peer
        /\ tb.local_session_id = ta.dest_session_id
        /\ tb.dest_session_id = ta.local_session_id
        /\ tb.their_node_id = server_node_id(ta.host)
        /\ tb.their_public_key = x25519_public(ta.dh_private_key)}

\* C34: whenever connect_with_timeout has returned a Connection, the responder DH
\* public key its transporter was keyed with is the public half of the DH private
\* key the responder's transporter of that session was created with, so that both
\* ends derive the same session key.
C34_BothEndsHoldTheSameKey ==
    \A i \in DOMAIN connects :
        (connects[i].kind = "connect" /\ connects[i].pc = "connected") =>
            \A ta \in transporters :
                (ta.role = "connect" /\ ta.host = connects[i].host
                    /\ ta.uid = connects[i].uid) =>
                    \A tb \in Counterparts(ta) :
                        /\ ta.their_public_key = x25519_public(tb.dh_private_key)
                        /\ calculate_initial_key(ta.dh_private_key, ta.their_public_key)
                             = calculate_initial_key(tb.dh_private_key,
                                                     tb.their_public_key)

\* The transporters a responder h spawned for the session (their_node_id,
\* dest_session_id), and the handlers at work that created its entry
Spawned(h, their_node_id, dest_session_id) ==
    {t \in transporters : /\ t.role = "accept"
                          /\ t.host = h
                          /\ t.their_node_id = their_node_id
                          /\ t.dest_session_id = dest_session_id}
Creating(h, their_node_id, dest_session_id) ==
    {hd \in handlers : /\ hd.host = h
                       /\ hd.is_new
                       /\ hd.their_node_id = their_node_id
                       /\ hd.dest_session_id = dest_session_id}
OneCreator(h, their_node_id, dest_session_id) ==
    /\ Cardinality(find_their_session(sessions[h], their_node_id, dest_session_id)) = 1
    /\ Cardinality(Creating(h, their_node_id, dest_session_id))
         + Cardinality(Spawned(h, their_node_id, dest_session_id)) = 1

C36_ResultWithoutDuplicatesOrOwner ==
    lookup.pc = "done" =>
        /\ \A j, k \in 1..Len(lookup.result) :
              j # k => lookup.result[j].node_id # lookup.result[k].node_id
        /\ \A k \in 1..Len(lookup.result) :
              lookup.result[k].node_id # node.node_id

\* C38: a pass of clean_sessions leaves every session that has been idle for less
\* than its keep_alive_timeout as it is, in the table and with its transporter
\* handle; and a CRYPTED packet for a session of the table sets the idle time of
\* that session back to nothing.
C38_LiveSessionsUntouched ==
    /\ [][\A h \in DOMAIN sessions : clean_sessions(h) =>
              \A s \in DOMAIN sessions[h] :
                  sessions[h][s].idle < sessions[h][s].keep_alive_timeout =>
                      /\ s \in DOMAIN sessions'[h]
                      /\ sessions'[h][s] = sessions[h][s]]_vars
    /\ [][\A h \in DOMAIN sessions : \A p \in net.crypted :
              (process_crypted_packet(h, p) /\ p.session_id \in DOMAIN sessions'[h])
                  => sessions'[h][p.session_id].idle = 0]_vars

\* A server whose cleaner has removed a session still holds an older session,
\* which a packet had refreshed.
C38_RefreshedSessionOutlivesPass ==
    \E x \in cleaned : \E s \in DOMAIN sessions[x.host] :
        /\ sessions[x.host][s].uid < x.uid
        /\ sessions[x.host][s].idle = 0
        /\ \E p \in net.crypted : p.dst = x.host /\ p.session_id = s

\* C39: a relayer sends a CRYPTED packet of the source on to the target only
\* under a target session id it has been given by process_relayed_hello_ack_packet,
\* never under the 0 the relay session is created with.
C39_NoForwardBeforeTargetIdLearned ==
    [][\A h \in Addrs : \A p \in net.crypted :
          (/\ process_crypted_packet(h, p)
           /\ sessions[h][p.session_id].kind = "Relay"
           /\ p.src = sessions[h][p.session_id].source_addr)
              => [host |-> h, uid |-> sessions[h][p.session_id].uid] \in Learned]_vars

\* C40: every candidate of a search, the fingers it was seeded with and those it
\* learned from a response alike, has the contact method pick_contact_strategy
\* gives for its openness and the openness of the node.
C40_LearnedFingersLikeSeeds ==
    \A k \in 1..Len(search.candidates) :
        search.candidates[k].method =
            pick_contact_strategy(node.openness, search.candidates[k].info.openness)
====
